---- MODULE Spec2Model ----
(***************************************************************************)
(* State-machine model of the durable per-user state subsystem             *)
(* (AdvancedMemoryManager) and of the action state machine (ActionHandler) *)
(* of src/app.py.                                                          *)
(*                                                                         *)
(* The Redis server is modelled by the value of its keys: the list keys    *)
(* long_term_memory:<owner> and memory_by_type:<owner>:<type>, and the     *)
(* scalar keys action:<id>.  uuid4 is a fresh-number supply, the wall      *)
(* clock is a counter.  json.dumps wraps a value into a text, json.loads   *)
(* unwraps a well-formed text and raises on any other.                     *)
(***************************************************************************)
EXTENDS Integers, Sequences, FiniteSets, TLC

(***************************************************************************)
(* Bounds of the model.                                                    *)
(***************************************************************************)
MaxOps == 2
MaxFaultyOps == 1

(***************************************************************************)
(* Program constants.                                                      *)
(***************************************************************************)
MEMORY_TYPES == {"personal", "reminder", "event", "contact", "preference"}
LedgerKeep == 100
IndexKeep == 50
PreferenceWindow == 10

(***************************************************************************)
(* Input domains.                                                          *)
(***************************************************************************)
PhoneNumbers == {"whatsapp:+1", "+2"}
ExecutePhones == {"whatsapp:+1"}
MemoryTypeArgs == MEMORY_TYPES \cup {"work"}
Contents == {[type |-> "important_note", content |-> "m2"]}
RetrieveTypeArgs == {"None", "reminder", "preference", "work"}
Limits == {1, 10}

(* (action name, params) pairs execute_action is called with. *)
ExecuteArgs ==
    {<<"create_reminder", [message |-> " Call mom ", date |-> "2025-01-05"]>>,
     <<"create_reminder", [message |-> "Call mom", date |-> "2025-1-5", time |-> "9:05",
                           priority |-> "high"]>>,
     <<"create_reminder", [message |-> "Call mom", date |-> "05/01/2025"]>>,
     <<"create_reminder", [message |-> "Call mom", date |-> "2025-01-05",
                           time |-> "25:00"]>>,
     <<"create_reminder", [date |-> "2025-02-30"]>>,
     <<"create_reminder", << >>>>,
     <<"send_message", [recipient |-> "+1555", message |-> "hi"]>>,
     <<"send_message", [recipient |-> "whatsapp:+1555", message |-> "hi",
                        date |-> "05/01/2025"]>>,
     <<"send_message", [message |-> "Call mom", date |-> "2025-01-05"]>>,
     <<"schedule_event", [title |-> "Demo", date |-> "2025-01-05", time |-> "14:30"]>>,
     <<"schedule_event", [title |-> "Demo", date |-> "2025-01-05"]>>,
     <<"schedule_event", [date |-> "2025-01-05", time |-> "2pm"]>>,
     <<"update_preference", [preference_name |-> " Language ",
                             preference_value |-> "fr"]>>,
     <<"update_preference", [preference_name |-> "currency", preference_value |-> "XAF",
                             category |-> "fx"]>>,
     <<"update_preference", [preference_name |-> "language"]>>,
     <<"set_goal", [goal_description |-> "Save", target_date |-> "someday"]>>,
     <<"set_goal", [goal_description |-> "Save"]>>,
     <<"unknown_action", << >>>>,
     <<"unknown_action", [message |-> "Call mom", date |-> "2025-01-05"]>>}

(***************************************************************************)
(* The store client: Redis list commands on the value of one list key.     *)
(* Indices are 0-based, a negative index counts from the tail.             *)
(***************************************************************************)
ListIndex(len, i) == IF i < 0 THEN len + i ELSE i

lrange(list, start, end) ==
    LET len == Len(list)
        s0  == ListIndex(len, start)
        s   == IF s0 < 0 THEN 0 ELSE s0
        e0  == ListIndex(len, end)
        e   == IF e0 >= len THEN len - 1 ELSE e0
    IN  IF s > e THEN << >> ELSE SubSeq(list, s + 1, e + 1)

(* A push that puts the value at the head, as lpush does. *)
rpush_AtHead(list, value) == <<value>> \o list

rpush(list, value) == Append(list, value)

(* ltrim that counts the kept range from the head: it keeps the oldest. *)
ltrim_FromHead(list, start, end) == lrange(list, 0, end - start)

ltrim(list, start, end) == lrange(list, start, end)

(* A set-by-index that writes the head whatever the index. *)
lset_AtHead(list, index, value) == [list EXCEPT ![1] = value]

lset(list, index, value) == [list EXCEPT ![ListIndex(Len(list), index) + 1] = value]

(***************************************************************************)
(* json.dumps / json.loads.                                                *)
(***************************************************************************)
JsonDumps(value) == [json |-> value]

JsonDecodable(text) == "json" \in DOMAIN text

JsonLoads(text) == text.json

_sanitize_phone(phone_number) ==
    IF phone_number = "whatsapp:+1" THEN "+1"
    ELSE IF phone_number = "whatsapp:+2" THEN "+2"
    ELSE phone_number

Owners == {_sanitize_phone(p) : p \in PhoneNumbers}

(***************************************************************************)
(* The keys of the store.                                                  *)
(***************************************************************************)
EmptyStore ==
    [long_term_memory |-> [o \in Owners |-> << >>],
     memory_by_type   |-> [o \in Owners |-> [t \in MemoryTypeArgs |-> << >>]],
     action           |-> << >>]

(***************************************************************************)
(* AdvancedMemoryManager.save_long_term_memory.  fail is the number of the *)
(* first store call of this invocation that raises (0: none does); the     *)
(* calls before it have taken effect.                                      *)
(***************************************************************************)
MemoryEntry(memory_id, memory_type, content, now) ==
    [id         |-> memory_id,
     type       |-> memory_type,
     content    |-> JsonDumps(content),
     created_at |-> now,
     updated_at |-> now]

SaveEntry(store, phone_number, memory_type, content, memory_id, now, fail) ==
    LET owner  == _sanitize_phone(phone_number)
        ledger == store.long_term_memory[owner]
        index  == store.memory_by_type[owner][memory_type]
        l1 == rpush(ledger, JsonDumps(MemoryEntry(memory_id, memory_type, content, now)))
        l2 == ltrim(l1, 0 - LedgerKeep, -1)
        i1 == rpush(index, memory_id)
        i2 == ltrim(i1, 0 - IndexKeep, -1)
        ledgerAfter == IF fail = 1 THEN ledger ELSE IF fail = 2 THEN l1 ELSE l2
        indexAfter  == IF fail \in 1..3 THEN index ELSE IF fail = 4 THEN i1 ELSE i2
        after == [store EXCEPT !.long_term_memory[owner] = ledgerAfter,
                               !.memory_by_type[owner][memory_type] = indexAfter]
    IN  IF fail \in 1..4
        THEN [store |-> after, ret |-> 0, raised |-> "MemoryError", calls |-> fail]
        ELSE [store |-> after, ret |-> memory_id, raised |-> "none", calls |-> 4]

(* Save without the check of the memory type. *)
save_long_term_memory_Unvalidated(store, phone_number, memory_type, content, memory_id, now, fail) ==
    SaveEntry(store, phone_number, memory_type, content, memory_id, now, fail)

save_long_term_memory(store, phone_number, memory_type, content, memory_id, now, fail) ==
    IF memory_type \notin MEMORY_TYPES
    THEN [store |-> store, ret |-> 0, raised |-> "ValueError", calls |-> 0]
    ELSE SaveEntry(store, phone_number, memory_type, content, memory_id, now, fail)

(***************************************************************************)
(* AdvancedMemoryManager.retrieve_long_term_memories.  memory_type and     *)
(* days_back are "None" / 0 when not given.                                *)
(***************************************************************************)
InIds(memory_id, memory_ids) == \E k \in 1..Len(memory_ids) : memory_ids[k] = memory_id

(* The entry returned with its content still serialized. *)
Parsed_ContentNotLoaded(memory) == memory

Parsed(memory) == [memory EXCEPT !.content = JsonLoads(memory.content)]

(* The loop over the ledger entries (lines 481-496 and 506-521): an entry  *)
(* is parsed, skipped unless selected, its content parsed and appended,    *)
(* and the loop is left once limit entries are collected.  Parsing an      *)
(* undecodable text raises, which ends the call with MemoryError.          *)
Selected(memory, byIds, memory_ids, days_back, now) ==
    /\ byIds => InIds(memory.id, memory_ids)
    /\ ~(days_back # 0 /\ memory.created_at < now - days_back)

FilterMemories(memories, byIds, memory_ids, limit, days_back, now) ==
    LET n == Len(memories)
        hits == SelectSeq([i \in 1..n |-> i],
                          LAMBDA i : /\ JsonDecodable(memories[i])
                                     /\ Selected(JsonLoads(memories[i]), byIds,
                                                 memory_ids, days_back, now))
        last_read == IF Len(hits) >= limit THEN hits[limit] ELSE n
        taken == IF Len(hits) >= limit THEN limit ELSE Len(hits)
        raises == \/ \E i \in 1..last_read : ~JsonDecodable(memories[i])
                  \/ \E k \in 1..taken :
                         ~JsonDecodable(JsonLoads(memories[hits[k]]).content)
    IN  IF raises
        THEN [ret |-> << >>, raised |-> "MemoryError"]
        ELSE [ret |-> [k \in 1..taken |-> Parsed(JsonLoads(memories[hits[k]]))],
              raised |-> "none"]

retrieve_long_term_memories(store, phone_number, memory_type, limit, days_back, now, fail) ==
    LET owner == _sanitize_phone(phone_number)
    IN  IF memory_type # "None"
        THEN IF memory_type \notin MEMORY_TYPES
             THEN [ret |-> << >>, raised |-> "none", calls |-> 0]
             ELSE IF fail = 1
             THEN [ret |-> << >>, raised |-> "MemoryError", calls |-> 1]
             ELSE
             LET memory_ids == lrange(store.memory_by_type[owner][memory_type], 0 - limit, -1)
             IN  IF memory_ids = << >>
                 THEN [ret |-> << >>, raised |-> "none", calls |-> 1]
                 ELSE IF fail = 2
                 THEN [ret |-> << >>, raised |-> "MemoryError", calls |-> 2]
                 ELSE
                 LET all_memories == lrange(store.long_term_memory[owner], 0, -1)
                     r == FilterMemories(all_memories, TRUE, memory_ids, limit,
                                         days_back, now)
                 IN  [ret |-> r.ret, raised |-> r.raised, calls |-> 2]
        ELSE IF fail = 1
        THEN [ret |-> << >>, raised |-> "MemoryError", calls |-> 1]
        ELSE
        LET memories == lrange(store.long_term_memory[owner], 0 - (limit * 2), -1)
            r == FilterMemories(memories, FALSE, << >>, limit, days_back, now)
        IN  [ret |-> r.ret, raised |-> r.raised, calls |-> 1]

(***************************************************************************)
(* AdvancedMemoryManager.update_memory.                                    *)
(***************************************************************************)
(* A scan that reports position 0 when no entry has the id. *)
FindMemory_FirstOnMiss(memories, memory_id) ==
    LET n == Len(memories)
        hits == SelectSeq([i \in 1..n |-> i],
                          LAMBDA i : /\ JsonDecodable(memories[i])
                                     /\ JsonLoads(memories[i]).id = memory_id)
    IN  IF n = 0 THEN [found |-> FALSE, at |-> 0, raised |-> "none"]
        ELSE IF hits = << >> THEN [found |-> TRUE, at |-> 0, raised |-> "none"]
        ELSE [found |-> TRUE, at |-> hits[1] - 1, raised |-> "none"]

(* The scan of lines 555-557: the position (0-based) of the first entry    *)
(* with the id, unless parsing an entry before it raises.                  *)
FindMemory(memories, memory_id) ==
    LET n == Len(memories)
        undecodable == SelectSeq([i \in 1..n |-> i],
                                 LAMBDA i : ~JsonDecodable(memories[i]))
        hits == SelectSeq([i \in 1..n |-> i],
                          LAMBDA i : /\ JsonDecodable(memories[i])
                                     /\ JsonLoads(memories[i]).id = memory_id)
    IN  IF undecodable # << >> /\ (hits = << >> \/ undecodable[1] < hits[1])
        THEN [found |-> FALSE, at |-> 0, raised |-> "MemoryError"]
        ELSE IF hits = << >>
        THEN [found |-> FALSE, at |-> 0, raised |-> "none"]
        ELSE [found |-> TRUE, at |-> hits[1] - 1, raised |-> "none"]

update_memory(store, phone_number, memory_id, updated_content, now, fail) ==
    LET owner == _sanitize_phone(phone_number)
    IN  IF fail = 1
        THEN [store |-> store, ret |-> FALSE, raised |-> "MemoryError", calls |-> 1]
        ELSE
        LET memories == lrange(store.long_term_memory[owner], 0, -1)
            hit == FindMemory(memories, memory_id)
        IN  IF hit.raised # "none"
            THEN [store |-> store, ret |-> FALSE, raised |-> hit.raised, calls |-> 1]
            ELSE IF ~hit.found
            THEN [store |-> store, ret |-> FALSE, raised |-> "none", calls |-> 1]
            ELSE IF fail = 2
            THEN [store |-> store, ret |-> FALSE, raised |-> "MemoryError", calls |-> 2]
            ELSE
            LET memory  == JsonLoads(memories[hit.at + 1])
                updated == [memory EXCEPT !.content = JsonDumps(updated_content),
                                          !.updated_at = now]
            IN  [store |-> [store EXCEPT !.long_term_memory[owner] =
                                lset(store.long_term_memory[owner], hit.at,
                                     JsonDumps(updated))],
                 ret |-> TRUE, raised |-> "none", calls |-> 2]

(***************************************************************************)
(* ActionHandler.  A dict is a function on its keys; a text built by an    *)
(* f-string is the sequence of its fragments.                              *)
(***************************************************************************)
ActionHandler_ACTIONS ==
    [create_reminder   |-> [required_params |-> <<"message", "date">>,
                            optional_params |-> <<"time", "priority">>],
     send_message      |-> [required_params |-> <<"recipient", "message">>,
                            optional_params |-> <<"template_name">>],
     schedule_event    |-> [required_params |-> <<"title", "date", "time">>,
                            optional_params |-> <<"duration", "description", "location">>],
     update_preference |-> [required_params |-> <<"preference_name", "preference_value">>,
                            optional_params |-> <<"category">>],
     set_goal          |-> [required_params |-> <<"goal_description", "target_date">>,
                            optional_params |-> <<"milestones", "priority", "category">>]]

(* datetime.strptime(text, '%Y-%m-%d') and (text, '%H:%M') on the texts the *)
(* model feeds them: the ones listed parse, every other raises ValueError.  *)
StrptimeDateParses(text) == text \in {"2025-01-05", "2025-1-5"}
StrptimeTimeParses(text) == text \in {"14:30", "9:05"}

(* dict.get that returns the empty text for an absent key. *)
Get_NoDefault(params, key, default) == IF key \in DOMAIN params THEN params[key] ELSE ""

(* str.strip and str.lower on the texts of the model. *)
Strip(text) ==
    IF text = " Call mom " THEN "Call mom"
    ELSE IF text = " Language " THEN "Language"
    ELSE IF text = " to call mom " THEN "to call mom"
    ELSE IF text = " On it. " THEN "On it."
    ELSE IF text = "   " THEN ""
    ELSE text

Lower(text) == IF text = "Language" THEN "language" ELSE text

Get(params, key, default) == IF key \in DOMAIN params THEN params[key] ELSE default

(* Validation without the check of the time format. *)
validate_action_TimeUnchecked(action_name, params) ==
    IF action_name \notin DOMAIN ActionHandler_ACTIONS
    THEN [valid |-> FALSE, error |-> <<"Unknown action: ", action_name>>]
    ELSE
    LET required == ActionHandler_ACTIONS[action_name].required_params
        missing_params == SelectSeq(required, LAMBDA param : param \notin DOMAIN params)
    IN  IF missing_params # << >>
        THEN [valid |-> FALSE,
              error |-> <<"Missing required parameters: ">> \o missing_params]
        ELSE IF "date" \in DOMAIN params /\ ~StrptimeDateParses(params["date"])
        THEN [valid |-> FALSE,
              error |-> <<"Invalid date format for 'date'. Use YYYY-MM-DD format.">>]
        ELSE [valid |-> TRUE]

validate_action(action_name, params) ==
    IF action_name \notin DOMAIN ActionHandler_ACTIONS
    THEN [valid |-> FALSE, error |-> <<"Unknown action: ", action_name>>]
    ELSE
    LET required == ActionHandler_ACTIONS[action_name].required_params
        missing_params == SelectSeq(required, LAMBDA param : param \notin DOMAIN params)
    IN  IF missing_params # << >>
        THEN [valid |-> FALSE,
              error |-> <<"Missing required parameters: ">> \o missing_params]
        ELSE IF "date" \in DOMAIN params /\ ~StrptimeDateParses(params["date"])
        THEN [valid |-> FALSE,
              error |-> <<"Invalid date format for 'date'. Use YYYY-MM-DD format.">>]
        ELSE IF "time" \in DOMAIN params /\ ~StrptimeTimeParses(params["time"])
        THEN [valid |-> FALSE,
              error |-> <<"Invalid time format for 'time'. Use 24-hour HH:MM format.">>]
        ELSE [valid |-> TRUE]

(***************************************************************************)
(* The messaging gateway: twilio_client.messages.create either accepts the *)
(* message and returns it with a sid, or raises TwilioRestException.       *)
(***************************************************************************)
TwilioErrorMsg == "Unable to create record"

WhatsappAddress(recipient) ==
    IF recipient \in {"whatsapp:+1555"} THEN recipient
    ELSE IF recipient = "+1555" THEN "whatsapp:+1555"
    ELSE recipient

(***************************************************************************)
(* The action-specific logic of execute_action (lines 724-910).  outbox is *)
(* what the gateway has accepted so far.  fail.memory numbers the store    *)
(* calls made through AdvancedMemoryManager in this invocation and is the  *)
(* first of them to raise; fail.gateway makes the gateway raise.  calls    *)
(* lists what the dispatch invoked.                                        *)
(***************************************************************************)
Rest(fail, calls) == IF fail > calls THEN fail - calls ELSE 0

(* What a branch that ends with one Save leaves: s is what Save returned   *)
(* or raised (MemoryError, turned into ActionError with the branch's text). *)
SaveOutcome(s, outbox, label, result, calls) ==
    IF s.raised = "none"
    THEN [store |-> s.store, outbox |-> outbox, outcome |-> "ok", result |-> result,
          error |-> << >>, calls |-> calls]
    ELSE [store |-> s.store, outbox |-> outbox, outcome |-> "ActionError",
          result |-> << >>, error |-> <<label, "Failed to save memory: ">>,
          calls |-> calls]

create_reminder(store, outbox, phone_number, params, memory_id, now, fail) ==
    LET reminder == [message    |-> Strip(params["message"]),
                     date       |-> params["date"],
                     time       |-> Get(params, "time", "09:00"),
                     priority   |-> Get(params, "priority", "normal"),
                     status     |-> "pending",
                     created_at |-> now]
    IN  SaveOutcome(save_long_term_memory(store, phone_number, "reminder", reminder,
                                          memory_id, now, fail.memory),
                    outbox, "Failed to save reminder: ",
                    [success          |-> TRUE,
                     message          |-> <<"Reminder created: ", params["message"]>>,
                     memory_id        |-> memory_id,
                     reminder_details |-> reminder],
                    <<"save_long_term_memory">>)

(* send_message after the gateway accepted the message: s is what the Save *)
(* of the sent-message record returned or raised; its MemoryError is not   *)
(* caught by the branch.                                                   *)
SentOutcome(s, accepted, recipient, sid) ==
    IF s.raised = "none"
    THEN [store |-> s.store, outbox |-> accepted, outcome |-> "ok",
          result |-> [success |-> TRUE,
                      message |-> <<"Message sent to ", recipient>>,
                      sid     |-> sid],
          error |-> << >>,
          calls |-> <<"messages.create", "save_long_term_memory">>]
    ELSE [store |-> s.store, outbox |-> accepted, outcome |-> "Exception",
          result |-> << >>, error |-> <<"Failed to save memory: ">>,
          calls |-> <<"messages.create", "save_long_term_memory">>]

(* send_message that records the message before handing it to the gateway. *)
send_message_RecordsFirst(store, outbox, phone_number, params, memory_id, now, fail) ==
    LET sent_message == [recipient |-> WhatsappAddress(params["recipient"]),
                         message   |-> Strip(params["message"]),
                         sid       |-> Len(outbox) + 1,
                         sent_at   |-> now]
        s == save_long_term_memory(store, phone_number, "contact",
                                   [type |-> "sent_message", data |-> sent_message],
                                   memory_id, now, fail.memory)
    IN  IF fail.gateway
        THEN [store |-> s.store, outbox |-> outbox, outcome |-> "ActionError",
              result |-> << >>, error |-> <<"Twilio error: ", TwilioErrorMsg>>,
              calls |-> <<"save_long_term_memory", "messages.create">>]
        ELSE SentOutcome(s, Append(outbox, [to   |-> sent_message.recipient,
                                            body |-> sent_message.message,
                                            sid  |-> sent_message.sid]),
                         sent_message.recipient, sent_message.sid)

send_message(store, outbox, phone_number, params, memory_id, now, fail) ==
    IF fail.gateway
    THEN [store |-> store, outbox |-> outbox, outcome |-> "ActionError",
          result |-> << >>, error |-> <<"Twilio error: ", TwilioErrorMsg>>,
          calls |-> <<"messages.create">>]
    ELSE LET sent_message == [recipient |-> WhatsappAddress(params["recipient"]),
                              message   |-> Strip(params["message"]),
                              sid       |-> Len(outbox) + 1,
                              sent_at   |-> now]
         IN  SentOutcome(save_long_term_memory(
                             store, phone_number, "contact",
                             [type |-> "sent_message", data |-> sent_message],
                             memory_id, now, fail.memory),
                         Append(outbox, [to   |-> sent_message.recipient,
                                         body |-> sent_message.message,
                                         sid  |-> sent_message.sid]),
                         sent_message.recipient, sent_message.sid)

schedule_event(store, outbox, phone_number, params, memory_id, now, fail) ==
    LET event == [title       |-> Strip(params["title"]),
                  date        |-> params["date"],
                  time        |-> params["time"],
                  duration    |-> Get(params, "duration", "60"),
                  description |-> Get(params, "description", ""),
                  location    |-> Get(params, "location", ""),
                  status      |-> "scheduled",
                  created_at  |-> now]
    IN  SaveOutcome(save_long_term_memory(store, phone_number, "event", event,
                                          memory_id, now, fail.memory),
                    outbox, "Failed to save event: ",
                    [success       |-> TRUE,
                     message       |-> <<"Event scheduled: ", params["title"]>>,
                     memory_id     |-> memory_id,
                     event_details |-> event],
                    <<"save_long_term_memory">>)

(* The loop of lines 847-858 over the preferences Retrieve returned. *)
RECURSIVE FindPreference(_, _, _)
FindPreference(existing_memories, i, preference) ==
    IF i > Len(existing_memories)
    THEN [found |-> FALSE, raised |-> "none", key |-> "", id |-> 0]
    ELSE IF "name" \notin DOMAIN existing_memories[i].content
    THEN [found |-> FALSE, raised |-> "KeyError", key |-> "'name'", id |-> 0]
    ELSE IF existing_memories[i].content["name"] # preference.name
    THEN FindPreference(existing_memories, i + 1, preference)
    ELSE IF "category" \notin DOMAIN existing_memories[i].content
    THEN [found |-> FALSE, raised |-> "KeyError", key |-> "'category'", id |-> 0]
    ELSE IF existing_memories[i].content["category"] # preference.category
    THEN FindPreference(existing_memories, i + 1, preference)
    ELSE [found |-> TRUE, raised |-> "none", key |-> "", id |-> existing_memories[i].id]

PreferenceResult(params, preference, memory_id) ==
    [success            |-> TRUE,
     message            |-> <<"Preference updated: ", params["preference_name"]>>,
     memory_id          |-> memory_id,
     preference_details |-> preference]

(* update_preference when the loop found the preference: u is what Update *)
(* returned or raised.                                                     *)
UpdateOutcome(u, outbox, result) ==
    IF u.raised = "none"
    THEN [store |-> u.store, outbox |-> outbox, outcome |-> "ok", result |-> result,
          error |-> << >>,
          calls |-> <<"retrieve_long_term_memories", "update_memory">>]
    ELSE [store |-> u.store, outbox |-> outbox, outcome |-> "ActionError",
          result |-> << >>,
          error |-> <<"Failed to save preference: ", "Failed to update memory: ">>,
          calls |-> <<"retrieve_long_term_memories", "update_memory">>]

(* update_preference after the loop: hit is what the loop found or raised. *)
PreferenceOutcome(hit, store, outbox, phone_number, params, preference, memory_id, now, fail) ==
    IF hit.raised # "none"
    THEN [store |-> store, outbox |-> outbox, outcome |-> "Exception",
          result |-> << >>, error |-> <<hit.key>>,
          calls |-> <<"retrieve_long_term_memories">>]
    ELSE IF hit.found
    THEN UpdateOutcome(update_memory(store, phone_number, hit.id, preference, now, fail),
                       outbox, PreferenceResult(params, preference, hit.id))
    ELSE SaveOutcome(save_long_term_memory(store, phone_number, "preference", preference,
                                           memory_id, now, fail),
                     outbox, "Failed to save preference: ",
                     PreferenceResult(params, preference, memory_id),
                     <<"retrieve_long_term_memories", "save_long_term_memory">>)

(* update_preference after Retrieve: existing is what it returned or raised. *)
ExistingOutcome(existing, store, outbox, phone_number, params, preference, memory_id, now, fail) ==
    IF existing.raised # "none"
    THEN [store |-> store, outbox |-> outbox, outcome |-> "ActionError",
          result |-> << >>,
          error |-> <<"Failed to save preference: ", "Failed to retrieve memories: ">>,
          calls |-> <<"retrieve_long_term_memories">>]
    ELSE PreferenceOutcome(FindPreference(existing.ret, 1, preference), store, outbox,
                           phone_number, params, preference, memory_id, now,
                           Rest(fail.memory, existing.calls))

update_preference(store, outbox, phone_number, params, memory_id, now, fail) ==
    LET preference == [name       |-> Lower(Strip(params["preference_name"])),
                       value      |-> params["preference_value"],
                       category   |-> Get(params, "category", "general"),
                       updated_at |-> now]
    IN  ExistingOutcome(retrieve_long_term_memories(store, phone_number, "preference",
                                                    PreferenceWindow, 0, now,
                                                    fail.memory),
                        store, outbox, phone_number, params, preference, memory_id, now,
                        fail)

set_goal(store, outbox, phone_number, params, memory_id, now, fail) ==
    LET goal == [description |-> Strip(params["goal_description"]),
                 target_date |-> params["target_date"],
                 milestones  |-> Get(params, "milestones", << >>),
                 priority    |-> Get(params, "priority", "medium"),
                 category    |-> Get(params, "category", "personal"),
                 status      |-> "active",
                 progress    |-> 0,
                 created_at  |-> now]
    IN  SaveOutcome(save_long_term_memory(store, phone_number, "personal",
                                          [type |-> "goal", data |-> goal],
                                          memory_id, now, fail.memory),
                    outbox, "Failed to save goal: ",
                    [success      |-> TRUE,
                     message      |-> <<"Goal set: ", params["goal_description"]>>,
                     memory_id    |-> memory_id,
                     goal_details |-> goal],
                    <<"save_long_term_memory">>)

Dispatch(store, outbox, phone_number, action_name, params, memory_id, now, fail) ==
    CASE action_name = "create_reminder" ->
             create_reminder(store, outbox, phone_number, params, memory_id, now, fail)
      [] action_name = "send_message" ->
             send_message(store, outbox, phone_number, params, memory_id, now, fail)
      [] action_name = "schedule_event" ->
             schedule_event(store, outbox, phone_number, params, memory_id, now, fail)
      [] action_name = "update_preference" ->
             update_preference(store, outbox, phone_number, params, memory_id, now, fail)
      [] action_name = "set_goal" ->
             set_goal(store, outbox, phone_number, params, memory_id, now, fail)
      [] OTHER ->
             [store |-> store, outbox |-> outbox, outcome |-> "ActionError",
              result |-> << >>, error |-> <<"Unhandled action: ", action_name>>,
              calls |-> << >>]

(***************************************************************************)
(* ActionHandler.execute_action under its decorator redis_error_handler.   *)
(* fail.set_pending, fail.set_final and fail.set_handler make the write of *)
(* the tracking record raise redis.RedisError: the first write (line 705), *)
(* the write of the outcome on the path that returns (lines 717 and 916),  *)
(* and the write made by an except clause (lines 934 and 958).  writes     *)
(* lists the statuses that reached the key action:<id>, in order;          *)
(* set_raised tells whether a write of the record raised.                  *)
(***************************************************************************)
NoFailure == [set_pending |-> FALSE, set_final |-> FALSE, set_handler |-> FALSE,
              memory |-> 0, gateway |-> FALSE]

(* SET that leaves an existing key as it is (SET ... NX). *)
SetAction_IfAbsent(store, action_id, action_tracking) ==
    [store EXCEPT !.action = @ @@ (action_id :> JsonDumps(action_tracking))]

SetAction(store, action_id, action_tracking) ==
    [store EXCEPT !.action = (action_id :> JsonDumps(action_tracking)) @@ @]

Failed(action_tracking, error, now) ==
    ("error" :> error) @@ ("completed_at" :> now)
    @@ [action_tracking EXCEPT !.status = "failed"]

Completed(action_tracking, result, now) ==
    ("result" :> result) @@ ("completed_at" :> now)
    @@ [action_tracking EXCEPT !.status = "completed"]

(* An except clause (lines 925-943, 950-967): write the failed record and  *)
(* return the error result.  A write that raises there leaves the          *)
(* function, and the decorator turns it into RedisOperationError.          *)
Handler(store, outbox, action_tracking, now, fail, writes, calls, valid, outcome, set_raised, error) ==
    IF fail.set_handler
    THEN [store |-> store, outbox |-> outbox, ret |-> << >>,
          raised |-> "RedisOperationError", writes |-> writes, calls |-> calls,
          valid |-> valid, outcome |-> outcome, set_raised |-> TRUE]
    ELSE [store |-> SetAction(store, action_tracking.id,
                              Failed(action_tracking, error, now)),
          outbox |-> outbox, ret |-> [success |-> FALSE, error |-> error],
          raised |-> "none", writes |-> Append(writes, "failed"), calls |-> calls,
          valid |-> valid, outcome |-> outcome, set_raised |-> set_raised]

RedisErrorText == <<"Unexpected error: ", "Connection refused">>

(* After the dispatch (lines 912-967): d is what the action's branch left. *)
Dispatched(d, action_tracking, now, fail) ==
    IF d.outcome = "ActionError"
    THEN Handler(d.store, d.outbox, action_tracking, now, fail, <<"pending">>, d.calls,
                 "valid", d.outcome, FALSE, d.error)
    ELSE IF d.outcome = "Exception"
    THEN Handler(d.store, d.outbox, action_tracking, now, fail, <<"pending">>, d.calls,
                 "valid", d.outcome, FALSE, <<"Unexpected error: ">> \o d.error)
    ELSE IF fail.set_final
    THEN Handler(d.store, d.outbox, Completed(action_tracking, d.result, now), now, fail,
                 <<"pending">>, d.calls, "valid", d.outcome, TRUE, RedisErrorText)
    ELSE [store |-> SetAction(d.store, action_tracking.id,
                              Completed(action_tracking, d.result, now)),
          outbox |-> d.outbox, ret |-> d.result, raised |-> "none",
          writes |-> <<"pending", "completed">>, calls |-> d.calls,
          valid |-> "valid", outcome |-> d.outcome, set_raised |-> FALSE]

(* After the first write (lines 711-923): pending is the store with the    *)
(* pending record, validation what validate_action returned.               *)
Validated(validation, pending, outbox, action_tracking, memory_id, now, fail) ==
    IF ~validation.valid
    THEN IF fail.set_final
         THEN Handler(pending, outbox, Failed(action_tracking, validation.error, now),
                      now, fail, <<"pending">>, << >>, "invalid", "none", TRUE,
                      RedisErrorText)
         ELSE [store |-> SetAction(pending, action_tracking.id,
                                   Failed(action_tracking, validation.error, now)),
               outbox |-> outbox, ret |-> validation, raised |-> "none",
               writes |-> <<"pending", "failed">>, calls |-> << >>,
               valid |-> "invalid", outcome |-> "none", set_raised |-> FALSE]
    ELSE Dispatched(Dispatch(pending, outbox, action_tracking.phone_number,
                             action_tracking.action_name, action_tracking.params,
                             memory_id, now, fail),
                    action_tracking, now, fail)

Tracked(action_tracking, store, outbox, memory_id, now, fail) ==
    IF fail.set_pending
    THEN Handler(store, outbox, action_tracking, now, fail, << >>, << >>, "unchecked",
                 "none", TRUE, RedisErrorText)
    ELSE Validated(validate_action(action_tracking.action_name, action_tracking.params),
                   SetAction(store, action_tracking.id, action_tracking),
                   outbox, action_tracking, memory_id, now, fail)

execute_action(store, outbox, phone_number, action_name, params, action_id, memory_id, now, fail) ==
    Tracked([id           |-> action_id,
             phone_number |-> phone_number,
             action_name  |-> action_name,
             params       |-> params,
             status       |-> "pending",
             created_at   |-> now],
            store, outbox, memory_id, now, fail)

(***************************************************************************)
(* FXTrader (src/fx_trader.py).  A rate is held as an integer: USD/XAF and *)
(* USD/XOF in tenths, AED/USD, USD/CNY and USD/EUR in thousandths, a       *)
(* published pair in hundredths, a markup percentage in tenths of a        *)
(* percent.  Products and quotients are exact and round(x, 2) rounds the   *)
(* exact value half to even; the binary representation of a float is not   *)
(* modelled.  None is the value None (a JSON null included).               *)
(***************************************************************************)
usd_markup_percentage == 80
usdt_markup_percentage == 85
aed_markup_percentage == 85
xof_markup_percentage == 40
xaf_cny_markup_percentage == 95
xof_cny_markup_percentage == 50
xaf_eur_markup_percentage == 70
xof_eur_markup_percentage == 40

StaticUsdXaf == 5580
StaticAedUsd == 272
StaticUsdXof == 5580
StaticUsdCny == 7140
StaticUsdEur == 858
FloorRate == 60450

None == [kind |-> "none"]

Rate(value) == [kind |-> "rate", value |-> value]

(* Python truth of what a source returned: None and 0 are false. *)
Truthy(answer) == answer.kind = "rate" /\ answer.value # 0

Pairs == {"XAF_USD", "XAF_USDT", "XAF_AED", "XAF_CNY", "XAF_EUR",
          "XOF_USD", "XOF_USDT", "XOF_AED", "XOF_CNY", "XOF_EUR"}

InitialBaseRates == [k \in Pairs \cup {"last_updated"} |-> 0]

(* get_yahoo_rate: the price of the chart, None on an empty price, a       *)
(* status other than 200 or an exception.                                  *)
get_yahoo_rate(answer) == IF Truthy(answer.yahoo) THEN answer.yahoo ELSE None

(* get_fallback_rate: the rates of the reply, None on a status other than  *)
(* 200 or an exception.                                                    *)
get_fallback_rate(answer) ==
    IF answer.fallback.ok THEN [kind |-> "dict", rates |-> answer.fallback.rates] ELSE None

(* An anchor getter that answers with the static constant whenever the     *)
(* secondary source holds no usable rate.                                  *)
GetAnchorRate_StaticOverSecondary(symbol, base, key, static, answer) ==
    LET rate == get_yahoo_rate(answer)
        fallback_data == get_fallback_rate(answer)
    IN  IF Truthy(rate)
        THEN [rate |-> rate, queries |-> <<<<"yahoo", symbol>>>>, source |-> "yahoo"]
        ELSE [rate |-> Rate(static),
              queries |-> <<<<"yahoo", symbol>>, <<"fallback", base>>>>,
              source |-> "static"]

(* The body shared by get_usd_xaf_rate, get_aed_usd_rate, get_usd_xof_rate, *)
(* get_usd_cny_rate and get_usd_eur_rate: what the getter returns, the      *)
(* queries it made, in order, and where the value came from.                *)
GetAnchorRate(symbol, base, key, static, answer) ==
    LET rate == get_yahoo_rate(answer)
        fallback_data == get_fallback_rate(answer)
    IN  IF Truthy(rate)
        THEN [rate |-> rate, queries |-> <<<<"yahoo", symbol>>>>, source |-> "yahoo"]
        ELSE IF /\ fallback_data # None
                /\ DOMAIN fallback_data.rates # {}
                /\ key \in DOMAIN fallback_data.rates
        THEN [rate |-> fallback_data.rates[key],
              queries |-> <<<<"yahoo", symbol>>, <<"fallback", base>>>>,
              source |-> "fallback"]
        ELSE [rate |-> Rate(static),
              queries |-> <<<<"yahoo", symbol>>, <<"fallback", base>>>>,
              source |-> "static"]

get_usd_xaf_rate(answers) ==
    GetAnchorRate("USDXAF=X", "USD", "XAF", StaticUsdXaf, answers["usd_xaf"])

get_aed_usd_rate(answers) ==
    GetAnchorRate("AEDUSD=X", "AED", "USD", StaticAedUsd, answers["aed_usd"])

get_usd_xof_rate(answers) ==
    GetAnchorRate("USDXOF=X", "USD", "XOF", StaticUsdXof, answers["usd_xof"])

get_usd_cny_rate(answers) ==
    GetAnchorRate("USDCNY=X", "USD", "CNY", StaticUsdCny, answers["usd_cny"])

get_usd_eur_rate(answers) ==
    GetAnchorRate("USDEUR=X", "USD", "EUR", StaticUsdEur, answers["usd_eur"])

(* round(n / d, 2) of a value n / d given in hundredths, cut off instead  *)
(* of rounded.                                                            *)
Round2_Truncated(n, d) == n \div d

(* round(n / d, 2) of a value n / d given in hundredths. *)
Round2(n, d) ==
    LET q == n \div d
        r == n % d
    IN  IF 2 * r < d THEN q
        ELSE IF 2 * r > d THEN q + 1
        ELSE IF q % 2 = 0 THEN q ELSE q + 1

(* 1 + percentage / 100 as a fraction of denominator 200. *)
MarkupMultiplier(percentage) == (1000 + percentage) \div 5

MultiplierDen == 200

Max(a, b) == IF a >= b THEN a ELSE b

(* The pairs with the USD/XAF leg of XAF_CNY taken from the static value  *)
(* instead of the anchor fetched in the run.                               *)
PublishedRates_StaleCrossLeg(usd_xaf_rate, aed_usd_rate, usd_xof_rate, usd_cny_rate, usd_eur_rate) ==
    [XAF_USD  |-> Max(Round2(usd_xaf_rate * MarkupMultiplier(usd_markup_percentage) * 10,
                             MultiplierDen), FloorRate),
     XAF_USDT |-> Max(Round2(usd_xaf_rate * MarkupMultiplier(usdt_markup_percentage) * 10,
                             MultiplierDen), FloorRate),
     XAF_AED  |-> Round2(aed_usd_rate * usd_xaf_rate
                             * MarkupMultiplier(aed_markup_percentage),
                         MultiplierDen * 100),
     XOF_USD  |-> Round2(usd_xof_rate * MarkupMultiplier(xof_markup_percentage) * 10,
                         MultiplierDen),
     XOF_USDT |-> Round2(usd_xof_rate * MarkupMultiplier(xof_markup_percentage) * 10,
                         MultiplierDen),
     XOF_AED  |-> Round2(aed_usd_rate * usd_xof_rate
                             * MarkupMultiplier(xof_markup_percentage),
                         MultiplierDen * 100),
     XAF_CNY  |-> Round2(StaticUsdXaf * MarkupMultiplier(xaf_cny_markup_percentage)
                             * (10000 \div MultiplierDen), usd_cny_rate),
     XOF_CNY  |-> Round2(usd_xof_rate * MarkupMultiplier(xof_cny_markup_percentage)
                             * (10000 \div MultiplierDen), usd_cny_rate),
     XAF_EUR  |-> Round2(usd_xaf_rate * MarkupMultiplier(xaf_eur_markup_percentage)
                             * (10000 \div MultiplierDen), usd_eur_rate),
     XOF_EUR  |-> Round2(usd_xof_rate * MarkupMultiplier(xof_eur_markup_percentage)
                             * (10000 \div MultiplierDen), usd_eur_rate)]

(* The pairs of lines 244-285 from the five anchors of one run. *)
PublishedRates(usd_xaf_rate, aed_usd_rate, usd_xof_rate, usd_cny_rate, usd_eur_rate) ==
    [XAF_USD  |-> Max(Round2(usd_xaf_rate * MarkupMultiplier(usd_markup_percentage) * 10,
                             MultiplierDen), FloorRate),
     XAF_USDT |-> Max(Round2(usd_xaf_rate * MarkupMultiplier(usdt_markup_percentage) * 10,
                             MultiplierDen), FloorRate),
     XAF_AED  |-> Round2(aed_usd_rate * usd_xaf_rate
                             * MarkupMultiplier(aed_markup_percentage),
                         MultiplierDen * 100),
     XOF_USD  |-> Round2(usd_xof_rate * MarkupMultiplier(xof_markup_percentage) * 10,
                         MultiplierDen),
     XOF_USDT |-> Round2(usd_xof_rate * MarkupMultiplier(xof_markup_percentage) * 10,
                         MultiplierDen),
     XOF_AED  |-> Round2(aed_usd_rate * usd_xof_rate
                             * MarkupMultiplier(xof_markup_percentage),
                         MultiplierDen * 100),
     XAF_CNY  |-> Round2(usd_xaf_rate * MarkupMultiplier(xaf_cny_markup_percentage)
                             * (10000 \div MultiplierDen), usd_cny_rate),
     XOF_CNY  |-> Round2(usd_xof_rate * MarkupMultiplier(xof_cny_markup_percentage)
                             * (10000 \div MultiplierDen), usd_cny_rate),
     XAF_EUR  |-> Round2(usd_xaf_rate * MarkupMultiplier(xaf_eur_markup_percentage)
                             * (10000 \div MultiplierDen), usd_eur_rate),
     XOF_EUR  |-> Round2(usd_xof_rate * MarkupMultiplier(xof_eur_markup_percentage)
                             * (10000 \div MultiplierDen), usd_eur_rate)]

(* calculate_rates left at the first anchor that is not usable (lines     *)
(* 203-231): fetched are the getters' results so far, in order, written   *)
(* the keys of base_rates the run assigned.                               *)
RatesAborted(rates, fetched) ==
    [ok |-> FALSE, base_rates |-> rates, fetched |-> fetched, written |-> {}]

(* calculate_rates after the five anchors (lines 233-292). *)
RatesComputed(rates, fetched, now) ==
    [ok |-> TRUE,
     base_rates |-> ("last_updated" :> now)
                    @@ PublishedRates(fetched[1].rate.value, fetched[2].rate.value,
                                      fetched[3].rate.value, fetched[4].rate.value,
                                      fetched[5].rate.value),
     fetched |-> fetched,
     written |-> Pairs \cup {"last_updated"}]

AnchorGetter(k, answers) ==
    CASE k = 1 -> get_usd_xaf_rate(answers)
      [] k = 2 -> get_aed_usd_rate(answers)
      [] k = 3 -> get_usd_xof_rate(answers)
      [] k = 4 -> get_usd_cny_rate(answers)
      [] k = 5 -> get_usd_eur_rate(answers)

(* FXTrader.calculate_rates, run alone: the anchors are fetched in order  *)
(* and the run returns False at the first that is None or 0.              *)
calculate_rates(rates, answers, now) ==
    LET all == [k \in 1..5 |-> AnchorGetter(k, answers)]
        unusable == {k \in 1..5 : ~Truthy(all[k].rate)}
        first == CHOOSE k \in unusable : \A j \in unusable : k <= j
    IN  IF unusable # {}
        THEN RatesAborted(rates, SubSeq(all, 1, first))
        ELSE RatesComputed(rates, all, now)

(***************************************************************************)
(* The replies of FXTrader.  A reply is its text and the numbers it shows: *)
(* shown maps each pair the text displays to the value displayed, amounts  *)
(* are the converted amounts, updated is the timestamp displayed.          *)
(***************************************************************************)
NoRun == [ok |-> FALSE, base_rates |-> << >>, fetched |-> << >>, written |-> {}]

TextReply(text) == [text |-> text, shown |-> << >>, amounts |-> << >>, updated |-> 0]

(* float(amount) and str.upper() on the texts of the model. *)
FloatParses(amount) == amount \in {"100", "2.5"}

Float(amount) == IF amount = "100" THEN 1000 ELSE 25

Upper(text) ==
    CASE text = "usd" -> "USD"
      [] text = "cny" -> "CNY"
      [] text = "tether" -> "TETHER"
      [] text = "xof" -> "XOF"
      [] OTHER -> text

SupportedCurrencies == {"USD", "USDT", "AED", "CNY", "EUR"}

CurrencyCode(currency) ==
    IF currency \in {"USDT", "TETHER"} THEN "USDT"
    ELSE IF currency \in {"CNY", "RMB", "YUAN"} THEN "CNY"
    ELSE currency

XafPair(currency) ==
    CASE currency = "USD" -> "XAF_USD"
      [] currency = "USDT" -> "XAF_USDT"
      [] currency = "AED" -> "XAF_AED"
      [] currency = "CNY" -> "XAF_CNY"
      [] currency = "EUR" -> "XAF_EUR"

XofPair(currency) ==
    CASE currency = "USD" -> "XOF_USD"
      [] currency = "USDT" -> "XOF_USDT"
      [] currency = "AED" -> "XOF_AED"
      [] currency = "CNY" -> "XOF_CNY"
      [] currency = "EUR" -> "XOF_EUR"

(* A daily reply that formats base_rates whatever calculate_rates returned. *)
DailyRatesReply_Unguarded(run) ==
    [text |-> "EVA FX TRADING RATES",
     shown |-> [pair \in Pairs |-> run.base_rates[pair]],
     amounts |-> << >>,
     updated |-> run.base_rates["last_updated"]]

(* get_daily_rates once calculate_rates has returned: run is what it left. *)
DailyRatesReply(run) ==
    IF ~run.ok
    THEN TextReply("Unable to fetch current exchange rates. Please try again later.")
    ELSE [text |-> "EVA FX TRADING RATES",
          shown |-> [pair \in Pairs |-> run.base_rates[pair]],
          amounts |-> << >>,
          updated |-> run.base_rates["last_updated"]]

get_daily_rates(rates, answers, now) ==
    [run |-> calculate_rates(rates, answers, now),
     reply |-> DailyRatesReply(calculate_rates(rates, answers, now))]

(* calculate_exchange once calculate_rates has returned (lines 339-429). *)
ExchangeReply(run, amount, currency) ==
    IF ~run.ok
    THEN TextReply("Unable to fetch current rates. Please try again.")
    ELSE IF CurrencyCode(currency) \notin SupportedCurrencies
    THEN TextReply("Currency not supported. Available: USD, USDT, AED, CNY, EUR")
    ELSE [text |-> "EVA FX CALCULATION",
          shown |-> (XafPair(CurrencyCode(currency))
                         :> run.base_rates[XafPair(CurrencyCode(currency))])
                    @@ (XofPair(CurrencyCode(currency))
                            :> run.base_rates[XofPair(CurrencyCode(currency))]),
          amounts |-> <<amount * run.base_rates[XafPair(CurrencyCode(currency))],
                        amount * run.base_rates[XofPair(CurrencyCode(currency))]>>,
          updated |-> run.base_rates["last_updated"]]

calculate_exchange(rates, answers, now, amount, currency) ==
    IF ~FloatParses(amount)
    THEN [run |-> [NoRun EXCEPT !.base_rates = rates],
          reply |-> TextReply("Invalid amount. Please enter a number (e.g., '100 USD')")]
    ELSE [run |-> calculate_rates(rates, answers, now),
          reply |-> ExchangeReply(calculate_rates(rates, answers, now), Float(amount),
                                  Upper(currency))]

(* get_trading_process_info once calculate_rates has returned (lines      *)
(* 448-548).                                                              *)
ProcessReply(run, amount, currency, target_currency) ==
    IF ~run.ok
    THEN TextReply("Unable to fetch current rates. Please try again.")
    ELSE IF CurrencyCode(currency) \notin SupportedCurrencies
    THEN TextReply("Source currency not supported")
    ELSE IF target_currency \notin {"XAF", "XOF"}
    THEN TextReply("Target currency not supported")
    ELSE LET pair == IF target_currency = "XAF" THEN XafPair(CurrencyCode(currency))
                     ELSE XofPair(CurrencyCode(currency))
         IN  [text |-> "EVA FX TRADING PROCESS",
              shown |-> (pair :> run.base_rates[pair]),
              amounts |-> <<amount * run.base_rates[pair]>>,
              updated |-> 0]

get_trading_process_info(rates, answers, now, amount, currency, target_currency) ==
    IF ~FloatParses(amount)
    THEN [run |-> [NoRun EXCEPT !.base_rates = rates],
          reply |-> TextReply("Invalid amount. Please enter a valid number.")]
    ELSE [run |-> calculate_rates(rates, answers, now),
          reply |-> ProcessReply(calculate_rates(rates, answers, now), Float(amount),
                                 Upper(currency), Upper(target_currency))]

(***************************************************************************)
(* The webhook (lines 1417-1576) and the functions it dispatches to.  A    *)
(* message is its text after strip() together with what the keyword lists  *)
(* and the regular expressions of handle_fx_commands, parse_direct_command *)
(* and the webhook find in it; a reply is the sequence of its fragments.   *)
(***************************************************************************)
MaxWebhookOps == 2

HistoryKeep == 20

MaxMessageLength == 4096

OpenAiMaxRetries == 3

PlainMessage(text, length) ==
    [text |-> text, length |-> length, important |-> FALSE, rate |-> FALSE,
     fx |-> FALSE, when |-> FALSE, amount |-> << >>, intent |-> FALSE,
     trade |-> << >>, subscribe |-> FALSE, greeting |-> FALSE, send |-> << >>,
     reminder |-> << >>]

Messages ==
    {PlainMessage("", 0),
     PlainMessage("xxxx...", 5000),
     PlainMessage("Tell me a joke", 14),
     [PlainMessage("Remember my flight lands at 9", 29) EXCEPT !.important = TRUE],
     [PlainMessage("rates", 5) EXCEPT !.rate = TRUE],
     [PlainMessage("What is the usd price today", 27) EXCEPT !.fx = TRUE, !.when = TRUE],
     [PlainMessage("100 usd", 7) EXCEPT !.fx = TRUE, !.amount = <<"100", "usd">>,
                                        !.trade = <<"100", "usd">>],
     [PlainMessage("buy 100 dollars", 15) EXCEPT !.intent = TRUE,
                                                !.trade = <<"100", "dollars">>],
     [PlainMessage("I want to buy", 13) EXCEPT !.intent = TRUE],
     [PlainMessage("subscribe", 9) EXCEPT !.subscribe = TRUE],
     [PlainMessage("hello", 5) EXCEPT !.greeting = TRUE],
     [PlainMessage("Send a message to +1555 saying see you at noon", 46)
          EXCEPT !.send = <<"+1555", "see you at noon">>],
     [PlainMessage("Send a message to +1555 saying hello", 36)
          EXCEPT !.greeting = TRUE, !.send = <<"+1555", "hello">>],
     [PlainMessage("Send a message to +1555 saying the rates changed", 48)
          EXCEPT !.rate = TRUE, !.send = <<"+1555", "the rates changed">>],
     [PlainMessage("Remind me to call mom on 2025-01-05", 35)
          EXCEPT !.reminder = <<" to call mom ", "2025-01-05">>]}

(* handle_fx_commands (lines 1239-1353): the checks in the order of the    *)
(* code; answered is false for the None of line 1353.                      *)
FxAnswer(r) == [answered |-> TRUE, run |-> r.run, reply |-> <<r.reply.text>>]

StaticAnswer(rates, text) ==
    [answered |-> TRUE, run |-> [NoRun EXCEPT !.base_rates = rates], reply |-> <<text>>]

TradeCurrency(currency) ==
    IF currency \in {"dollar", "dollars"} THEN "USD"
    ELSE IF currency \in {"dirham", "dirhams"} THEN "AED"
    ELSE currency

handle_fx_commands(message, rates, answers, now) ==
    IF message.rate
    THEN FxAnswer(get_daily_rates(rates, answers, now))
    ELSE IF message.fx /\ message.when
    THEN FxAnswer(get_daily_rates(rates, answers, now))
    ELSE IF message.amount # << >>
    THEN FxAnswer(calculate_exchange(rates, answers, now, message.amount[1],
                                     message.amount[2]))
    ELSE IF message.intent
    THEN IF message.trade # << >>
         THEN FxAnswer(get_trading_process_info(rates, answers, now, message.trade[1],
                                                TradeCurrency(message.trade[2]), "XAF"))
         ELSE StaticAnswer(rates, "READY TO TRADE?")
    ELSE IF message.subscribe
    THEN StaticAnswer(rates, "DAILY RATE SUBSCRIPTION")
    ELSE IF message.greeting
    THEN StaticAnswer(rates, "Welcome to FX Trading!")
    ELSE [answered |-> FALSE, run |-> [NoRun EXCEPT !.base_rates = rates],
          reply |-> << >>]

(* parse_direct_command (lines 1355-1415): << >> is (None, None). *)
parse_direct_command(message) ==
    IF message.send # << >>
    THEN <<"send_message", [recipient |-> WhatsappAddress(Strip(message.send[1])),
                            message   |-> Strip(message.send[2])]>>
    ELSE IF message.reminder # << >>
    THEN <<"create_reminder", [message |-> Strip(message.reminder[1]),
                               date    |-> message.reminder[2]]>>
    ELSE << >>

(* Line 1172: time.sleep(2 ** retry_count). *)
Backoff_Constant(retry_count) == 2

Backoff(retry_count) == 2 ^ retry_count

(* The retry loop of lines 1126-1172.  failures is the number of calls of  *)
(* the completion service that raise before one answers; sleeps are the    *)
(* waits made so far.                                                      *)
RECURSIVE CompletionLoop(_, _, _)
CompletionLoop(failures, retry_count, sleeps) ==
    IF ~(retry_count < OpenAiMaxRetries)
    THEN [answered |-> FALSE, returned |-> FALSE, attempts |-> retry_count,
          sleeps |-> sleeps]
    ELSE IF retry_count < failures
    THEN IF retry_count + 1 >= OpenAiMaxRetries
         THEN [answered |-> FALSE, returned |-> TRUE, attempts |-> retry_count + 1,
               sleeps |-> sleeps]
         ELSE CompletionLoop(failures, retry_count + 1,
                             Append(sleeps, Backoff(retry_count + 1)))
    ELSE [answered |-> TRUE, returned |-> FALSE, attempts |-> retry_count + 1,
          sleeps |-> sleeps]

ConnectivityReply ==
    <<"I'm experiencing connectivity issues at the moment. Please try again in a few moments.">>

DifficultiesReply ==
    <<"I'm experiencing some technical difficulties. Please try again in a moment.">>

WorkingOnItReply == "I understand your message and I'm working on it."

(* Lines 1175-1179: the content of the completion, stripped, or the fixed  *)
(* text when the content is None or empty.                                 *)
BotReply(content) ==
    IF content \notin {"None", ""} THEN <<Strip(content)>> ELSE <<WorkingOnItReply>>

(* What generate_ai_response_with_action_parsing returns with no action. *)
Replied(reply, store, outbox, loop) ==
    [reply |-> reply, action_result |-> << >>, store |-> store, outbox |-> outbox,
     attempts |-> loop.attempts, sleeps |-> loop.sleeps, executed |-> FALSE]

(* Lines 1186-1217 once execute_action has returned or raised: e is what   *)
(* it left.  A raise is caught at line 1212; after a return the action is  *)
(* saved as a personal memory and a failure of that Save is ignored.       *)
ActionParsed(e, reply, phone_number, action_name, memory_id, now, memory_fail, loop) ==
    IF e.raised # "none"
    THEN [reply |-> reply,
          action_result |-> [success |-> FALSE,
                             error |-> <<"Failed to execute action: ", e.raised>>],
          store |-> e.store, outbox |-> e.outbox,
          attempts |-> loop.attempts, sleeps |-> loop.sleeps, executed |-> TRUE]
    ELSE [reply |-> reply, action_result |-> e.ret,
          store |-> save_long_term_memory(
                        e.store, phone_number, "personal",
                        [type |-> "executed_action", action_name |-> action_name,
                         result |-> e.ret],
                        memory_id, now, memory_fail).store,
          outbox |-> e.outbox,
          attempts |-> loop.attempts, sleeps |-> loop.sleeps, executed |-> TRUE]

(* generate_ai_response_with_action_parsing (lines 968-1237).  ai is what  *)
(* the completion service does: the calls that fail, the content and the   *)
(* tool call of its answer.  The memories read for the prompt (982-1018)   *)
(* change nothing and a failure to read them is ignored.                   *)
generate_ai_response_with_action_parsing(store, outbox, phone_number, ai, next_id, now, fail, memory_fail) ==
    LET loop == CompletionLoop(ai.failures, 0, << >>)
    IN  IF loop.returned
        THEN Replied(ConnectivityReply, store, outbox, loop)
        ELSE IF ~loop.answered
        THEN Replied(DifficultiesReply, store, outbox, loop)
        ELSE IF ai.tool = << >> \/ ai.tool[1] # "execute_action"
        THEN Replied(BotReply(ai.content), store, outbox, loop)
        ELSE IF ai.tool[2] = "{"
        THEN [Replied(BotReply(ai.content), store, outbox, loop) EXCEPT
                 !.action_result =
                     [success |-> FALSE,
                      error |-> <<"Failed to execute action: ", "JSONDecodeError">>]]
        ELSE ActionParsed(execute_action(store, outbox, phone_number, ai.tool[2],
                                         ai.tool[3], next_id, next_id + 1, now, fail),
                          BotReply(ai.content), phone_number, ai.tool[2], next_id + 2,
                          now, memory_fail, loop)

(* Python's "text.lower() in reply.lower()" on sequences of fragments. *)
Mentions(reply, text) ==
    \E i \in 0..(Len(reply) - Len(text)) :
        \A k \in 1..Len(text) : reply[i + k] = text[k]

(* Lines 1519-1539: the reply with the result of the action appended       *)
(* unless the reply mentions it already.                                   *)
ComposeReply(response) ==
    LET action_result == response.action_result
    IN  IF action_result # << >> /\ Get(action_result, "success", FALSE)
        THEN LET result_message ==
                     Get(action_result, "message", <<"Action completed successfully.">>)
             IN  IF ~Mentions(response.reply, result_message)
                 THEN response.reply \o <<"(check mark) ">> \o result_message
                 ELSE response.reply
        ELSE IF action_result # << >>
        THEN LET error_msg ==
                     Get(action_result, "error", <<"Action could not be completed.">>)
             IN  IF ~Mentions(response.reply, error_msg)
                 THEN response.reply \o <<"(cross mark) ">> \o error_msg
                 ELSE response.reply
        ELSE response.reply

(* Lines 1492-1510: the reply of a direct command. *)
DirectReply(action_result) ==
    IF Get(action_result, "success", FALSE)
    THEN <<"(check mark) ">> \o Get(action_result, "message",
                                    <<"Action completed successfully.">>)
    ELSE <<"(cross mark) ">> \o Get(action_result, "error", <<"Action failed.">>)

(* conversation_history[-20:] that keeps the first turns instead. *)
LastTurns_FromHead(history) ==
    SubSeq(history, 1, IF Len(history) < HistoryKeep THEN Len(history) ELSE HistoryKeep)

(* Line 1548: conversation_history[-20:]. *)
LastTurns(history) ==
    SubSeq(history, IF Len(history) > HistoryKeep THEN Len(history) - HistoryKeep + 1 ELSE 1,
           Len(history))

(* Lines 1452-1460: the history of the stored text; none stored or a text  *)
(* json.loads rejects starts an empty history.                             *)
ReadHistory(conversation_raw) ==
    IF conversation_raw # None /\ JsonDecodable(conversation_raw)
    THEN JsonLoads(conversation_raw)
    ELSE << >>

InvalidReply == <<"Sorry, I couldn't process your message. Please try again.">>

TooLongReply ==
    <<"Your message is too long for me to process. Please send a shorter message.">>

ApologyReply ==
    <<"Sorry, I'm experiencing technical difficulties. Please try again in a moment.">>

UserTurn(message) == [role |-> "user", content |-> <<message.text>>]

AssistantTurn(bot_reply) == [role |-> "assistant", content |-> bot_reply]

(* Lines 1468-1482: a message with one of the words of the pattern is      *)
(* saved as a personal memory; a failure of the Save is ignored.           *)
NoteSaved(store, from_number, message, memory_id, now, memory_fail) ==
    IF message.important
    THEN save_long_term_memory(store, from_number, "personal",
                               [type |-> "important_note", content |-> message.text],
                               memory_id, now, memory_fail).store
    ELSE store

(* What the request leaves once its reply is composed: history is the     *)
(* list to store, raised whether an exception reached line 1568.          *)
Outcome(route, response, run, history, raised) ==
    [route |-> route,
     reply |-> IF raised THEN ApologyReply ELSE ComposeReply(response),
     history |-> IF raised THEN << >>
                 ELSE LastTurns(Append(history, AssistantTurn(ComposeReply(response)))),
     raised |-> raised,
     store |-> response.store, outbox |-> response.outbox, base_rates |-> run.base_rates,
     written |-> run.written,
     action_result |-> response.action_result,
     attempts |-> response.attempts, sleeps |-> response.sleeps,
     executed |-> response.executed]

(* The direct command of lines 1493-1510 once execute_action has returned  *)
(* or raised.                                                              *)
DirectOutcome(e, run, history) ==
    Outcome("direct",
            [reply |-> IF e.raised = "none" THEN DirectReply(e.ret) ELSE << >>,
             action_result |-> IF e.raised = "none" THEN e.ret ELSE << >>,
             store |-> e.store, outbox |-> e.outbox,
             attempts |-> 0, sleeps |-> << >>, executed |-> TRUE],
            run, history, e.raised # "none")

(* Lines 1484-1517 once handle_fx_commands has returned fx_response: the   *)
(* rate engine's answer, else a direct command, else the AI service.       *)
Dispatched_Webhook(fx_response, store, outbox, from_number, message, history, env, next_id, now) ==
    IF fx_response.answered
    THEN Outcome("fx",
                 [reply |-> fx_response.reply, action_result |-> << >>,
                  store |-> store, outbox |-> outbox,
                  attempts |-> 0, sleeps |-> << >>, executed |-> FALSE],
                 fx_response.run, history, FALSE)
    ELSE IF parse_direct_command(message) # << >>
    THEN DirectOutcome(execute_action(store, outbox, from_number,
                                      parse_direct_command(message)[1],
                                      parse_direct_command(message)[2],
                                      next_id, next_id + 1, now, env.fail),
                       fx_response.run, history)
    ELSE Outcome("ai",
                 generate_ai_response_with_action_parsing(
                     store, outbox, from_number, env.ai, next_id, now, env.fail,
                     env.memory_fail),
                 fx_response.run, history, FALSE)

(* Lines 1462-1548 for a request that passed the checks and read its       *)
(* history: the user turn, the note, the dispatch, the reply, the history  *)
(* to store.                                                               *)
Process(store, outbox, rates, answers, from_number, message, read, env, next_id, now) ==
    Dispatched_Webhook(handle_fx_commands(message, rates, answers, now),
                       NoteSaved(store, from_number, message, next_id, now,
                                 env.memory_fail),
                       outbox, from_number, message, Append(read, UserTurn(message)),
                       env, next_id + 1, now)

(* A request that ends before or at the read of its history: line 1432,   *)
(* line 1445, or a store error at line 1453.                               *)
Ended(route, reply, store, outbox, rates) ==
    [route |-> route, reply |-> reply, history |-> << >>, raised |-> route = "get",
     store |-> store, outbox |-> outbox, base_rates |-> rates, written |-> {},
     action_result |-> << >>, attempts |-> 0, sleeps |-> << >>, executed |-> FALSE]

(* webhook (lines 1426-1548) up to the history it is about to store.     *)
(* get is what redis_client.get did: a redis error is none of the          *)
(* exceptions line 1458 catches and reaches line 1568.                     *)
webhook(store, outbox, rates, answers, conversation_raw, from_number, message, env, next_id, now) ==
    IF from_number = "" \/ message.text = ""
    THEN Ended("invalid", InvalidReply, store, outbox, rates)
    ELSE IF message.length > MaxMessageLength
    THEN Ended("too_long", TooLongReply, store, outbox, rates)
    ELSE IF env.get = "error"
    THEN Ended("get", ApologyReply, store, outbox, rates)
    ELSE Process(store, outbox, rates, answers, from_number, message,
                 ReadHistory(conversation_raw), env, next_id, now)

(* A write that adds the turns of the request to what the key holds now. *)
StoredHistory_Merged(current_raw, history) ==
    JsonDumps(LastTurns(ReadHistory(current_raw)
                        \o SubSeq(history, Len(history) - 1, Len(history))))

(* Lines 1551-1556: redis_client.set(conversation_key, json.dumps(         *)
(* conversation_history)) replaces whatever the key holds.                 *)
StoredHistory(current_raw, history) == JsonDumps(history)

(***************************************************************************)
(* The state.                                                              *)
(*   redis    the keys of the Redis server                                 *)
(*   outbox   the messages the gateway has accepted                        *)
(*   nextId   the next value uuid4 yields                                  *)
(*   clock    datetime.now                                                 *)
(*   opCount  the number of operations run since Init                      *)
(*   saved    per owner, the id and type of every Save that returned       *)
(*   last     the last operation: its arguments, what it returned or raised *)
(***************************************************************************)
(*   base_rates  the dict FXTrader.base_rates of the shared fx_trader       *)
(*   fxCount     the number of FXTrader requests served                     *)
(*   fxLast      the last FXTrader request: what the sources answered, what *)
(*               calculate_rates fetched and returned, the reply            *)
(*   fxThreads   the requests running calculate_rates and formatting a     *)
(*               reply at the same time on the shared fx_trader             *)
(*   savers      the calls of save_long_term_memory running at the same    *)
(*               time, each at one of its store operations                  *)
VARIABLES redis, outbox, nextId, clock, opCount, saved, last, base_rates, fxCount, fxLast, fxThreads, savers, updater, boot, web

vars == <<redis, outbox, nextId, clock, opCount, saved, last, base_rates, fxCount, fxLast, fxThreads, savers, updater, boot, web>>

memoryVars == <<redis, outbox, nextId, clock, opCount, saved, last>>

fxVars == <<base_rates, fxCount, fxLast, fxThreads>>

auxVars == <<updater, boot, web>>

(* Two requests that call save_long_term_memory at the same time. *)
Callers == {"first", "second"}

IdleSaver ==
    [pc |-> "idle", phone_number |-> "", memory_type |-> "", memory_id |-> 0,
     entry |-> << >>, ret |-> 0, raised |-> "none"]

(* A call of update_memory that has not started. *)
IdleUpdater ==
    [pc |-> "idle", phone_number |-> "", memory_id |-> 0, content |-> << >>,
     memories |-> << >>, at |-> 0, before |-> << >>, now |-> 0, ret |-> FALSE]

(* The process before app.py is loaded: no store handle, no thread. *)
Unloaded(render, reachable) ==
    [render |-> render, reachable |-> reachable,
     handle |-> [kind |-> "none", class |-> 0], classes |-> 0,
     load |-> [pc |-> "start", attempt |-> 0, ping |-> 0],
     init |-> "off", upgrader |-> "off",
     stored |-> 0, dropped |-> 0, refused |-> 0]

(* The client of a process loaded off Render with the store answering. *)
Loaded ==
    [Unloaded(FALSE, TRUE) EXCEPT !.handle = [kind |-> "real", class |-> 0],
                                  !.load.pc = "done"]

(* The senders of the webhook requests of the model. *)
WebPhones == {"whatsapp:+1"}

(* The requests being handled at the same time. *)
HookThreads == {"first", "second"}

IdleHook ==
    [pc |-> "idle", from |-> "", message |-> "", read |-> << >>, history |-> << >>,
     reply |-> << >>]

(* No conversation stored, no request received. *)
IdleWeb ==
    [conversation |-> [p \in WebPhones |-> None],
     count |-> 0,
     last |-> [op |-> "init"],
     hooks |-> [t \in HookThreads |-> IdleHook]]

AuxInit ==
    /\ updater = IdleUpdater
    /\ boot = Unloaded(FALSE, TRUE)
    /\ web = IdleWeb

(* The threads of the process that use fx_trader: a webhook request and   *)
(* the scheduler.                                                         *)
Threads == {"webhook", "scheduler"}

IdleThread ==
    [pc |-> "idle", request |-> "", ok |-> FALSE, published |-> << >>, next |-> 0,
     seen |-> << >>]

(***************************************************************************)
(* Initial stores: the ledgers that a run of Save calls by one user leaves. *)
(***************************************************************************)
Repeat(memory_type, n) == [k \in 1..n |-> memory_type]

PrefillContent(memory_type, k) ==
    IF memory_type = "preference"
    THEN [name |-> IF k = 1 THEN "language" ELSE "pref" \o ToString(k),
          value |-> "en", category |-> "general", updated_at |-> k]
    ELSE [type |-> "important_note", content |-> "m1"]

RECURSIVE SaveAll(_, _, _, _, _)
SaveAll(store, phone_number, types, from, to) ==
    IF from > to THEN store
    ELSE IF from = to
    THEN save_long_term_memory(store, phone_number, types[from],
                               PrefillContent(types[from], from), from, from, 0).store
    ELSE LET mid == (from + to) \div 2
         IN  CHOOSE filled \in
                 {SaveAll(half, phone_number, types, mid + 1, to) :
                     half \in {SaveAll(store, phone_number, types, from, mid)}} : TRUE

Prefills == {<< >>,
             <<"preference", "event", "personal">>,
             Repeat("preference", PreferenceWindow + 1),
             Repeat("personal", 1) \o Repeat("reminder", LedgerKeep - 1)}

Init ==
    \E types \in Prefills :
        /\ redis = SaveAll(EmptyStore, "whatsapp:+1", types, 1, Len(types))
        /\ outbox = << >>
        /\ nextId = Len(types) + 1
        /\ clock = Len(types) + 1
        /\ opCount = 0
        /\ saved = [o \in Owners |->
                        IF o = "+1" THEN [k \in 1..Len(types) |-> [id |-> k, type |-> types[k]]]
                        ELSE << >>]
        /\ last = [op |-> "init"]
        /\ base_rates = InitialBaseRates
        /\ fxCount = 0
        /\ fxLast = [op |-> "init"]
        /\ fxThreads = [t \in Threads |-> IdleThread]
        /\ savers = [c \in Callers |-> IdleSaver]
        /\ AuxInit

(***************************************************************************)
(* One action per public operation.                                        *)
(***************************************************************************)
Save(phone_number, memory_type, content) ==
    LET r == save_long_term_memory(redis, phone_number, memory_type, content, nextId,
                                   clock, 0)
        owner == _sanitize_phone(phone_number)
    IN  /\ opCount < MaxOps
        /\ redis' = r.store
        /\ nextId' = nextId + 1
        /\ clock' = clock + 1
        /\ opCount' = opCount + 1
        /\ saved' = IF r.raised = "none"
                    THEN [saved EXCEPT ![owner] = Append(@, [id |-> r.ret,
                                                             type |-> memory_type])]
                    ELSE saved
        /\ last' = [op |-> "save", phone_number |-> phone_number,
                    memory_type |-> memory_type, content |-> content,
                    ret |-> r.ret, raised |-> r.raised, wrote |-> (r.store # redis)]
        /\ UNCHANGED outbox
        /\ UNCHANGED <<fxVars, savers, auxVars>>

Retrieve(phone_number, memory_type, limit) ==
    LET r == retrieve_long_term_memories(redis, phone_number, memory_type, limit, 0,
                                         clock, 0)
    IN  /\ opCount < MaxOps
        /\ clock' = clock + 1
        /\ opCount' = opCount + 1
        /\ last' = [op |-> "retrieve", phone_number |-> phone_number,
                    memory_type |-> memory_type, limit |-> limit,
                    ret |-> r.ret, raised |-> r.raised, after |-> last]
        /\ UNCHANGED <<redis, outbox, nextId, saved>>
        /\ UNCHANGED <<fxVars, savers, auxVars>>

(* The ids of the decodable entries of an owner's ledger, in ledger order. *)
LedgerIds(store, owner) ==
    LET ledger == store.long_term_memory[owner]
        decodable == SelectSeq(ledger, LAMBDA text : JsonDecodable(text))
    IN  [i \in 1..Len(decodable) |-> JsonLoads(decodable[i]).id]

(* The ids Update is tried with: the owner's oldest and newest saved ids, *)
(* and an id uuid4 has not issued.                                         *)
UpdateIds(owner) ==
    {0} \cup (IF saved[owner] = << >> THEN {}
              ELSE {saved[owner][1].id, saved[owner][Len(saved[owner])].id})

Update(phone_number, memory_id, updated_content) ==
    LET r == update_memory(redis, phone_number, memory_id, updated_content, clock, 0)
        owner == _sanitize_phone(phone_number)
    IN  /\ opCount < MaxOps
        /\ redis' = r.store
        /\ clock' = clock + 1
        /\ opCount' = opCount + 1
        /\ last' = [op |-> "update", phone_number |-> phone_number,
                    memory_id |-> memory_id, content |-> updated_content,
                    present |-> InIds(memory_id, LedgerIds(redis, owner)),
                    ret |-> r.ret, raised |-> r.raised, wrote |-> (r.store # redis)]
        /\ UNCHANGED <<outbox, nextId, saved>>
        /\ UNCHANGED <<fxVars, savers, auxVars>>

SavedType(action_name) ==
    CASE action_name = "create_reminder" -> "reminder"
      [] action_name = "send_message" -> "contact"
      [] action_name = "schedule_event" -> "event"
      [] action_name = "update_preference" -> "preference"
      [] action_name = "set_goal" -> "personal"

Ran(r, phone_number, action_name, params, fail) ==
    /\ opCount < MaxOps
    /\ redis' = r.store
    /\ outbox' = r.outbox
    /\ nextId' = nextId + 2
    /\ clock' = clock + 1
    /\ opCount' = opCount + 1
    /\ saved' = IF /\ r.outcome = "ok"
                   /\ r.calls[Len(r.calls)] = "save_long_term_memory"
                THEN [saved EXCEPT ![_sanitize_phone(phone_number)] =
                         Append(@, [id |-> nextId + 1, type |-> SavedType(action_name)])]
                ELSE saved
    /\ last' = [op |-> "execute", phone_number |-> phone_number,
                action_id |-> nextId, memory_id |-> nextId + 1,
                action_name |-> action_name,
                params |-> params, fail |-> fail, ret |-> r.ret, raised |-> r.raised,
                writes |-> r.writes, calls |-> r.calls, valid |-> r.valid,
                set_raised |-> r.set_raised,
                sent |-> Len(r.outbox) - Len(outbox),
                wrote |-> (r.store.long_term_memory # redis.long_term_memory
                           \/ r.store.memory_by_type # redis.memory_by_type)]
    /\ UNCHANGED <<fxVars, savers, auxVars>>

Run(phone_number, action_name, params, fail) ==
    \E r \in {execute_action(redis, outbox, phone_number, action_name, params, nextId,
                             nextId + 1, clock, fail)} :
        Ran(r, phone_number, action_name, params, fail)

Execute(phone_number, action_name, params) ==
    Run(phone_number, action_name, params, NoFailure)

Next ==
    \/ \E p \in PhoneNumbers, t \in MemoryTypeArgs, c \in Contents : Save(p, t, c)
    \/ \E p \in PhoneNumbers, t \in RetrieveTypeArgs, n \in Limits : Retrieve(p, t, n)
    \/ \E p \in PhoneNumbers, c \in Contents :
           \E id \in UpdateIds(_sanitize_phone(p)) : Update(p, id, c)
    \/ \E p \in ExecutePhones, a \in ExecuteArgs : Execute(p, a[1], a[2])

Spec == Init /\ [][Next]_vars

(***************************************************************************)
(* The store and the gateway failing: execute_action with a store call or  *)
(* the gateway call raising.  One of the first tracking write, the         *)
(* tracking write of the outcome, a MemoryStore store call and the gateway *)
(* call raises, and the write of the except clause raises or not.          *)
(***************************************************************************)
Failures ==
    {f \in [set_pending : BOOLEAN, set_final : BOOLEAN, set_handler : BOOLEAN,
            memory : 0..6, gateway : BOOLEAN] :
        /\ f # NoFailure
        /\ f.set_pending => (~f.set_final /\ f.memory = 0 /\ ~f.gateway)
        /\ f.set_final => (f.memory = 0 /\ ~f.gateway)
        /\ f.gateway => f.memory = 0}

ExecuteFaulty(phone_number, action_name, params, fail) ==
    /\ opCount < MaxFaultyOps
    /\ Run(phone_number, action_name, params, fail)

NextFail ==
    \/ opCount < MaxFaultyOps /\ Next
    \/ \E p \in ExecutePhones, a \in ExecuteArgs, f \in Failures :
           ExecuteFaulty(p, a[1], a[2], f)

SpecFail == Init /\ [][NextFail]_vars

(***************************************************************************)
(* The store holding a text that json.loads rejects: an entry of a ledger, *)
(* or the content of an entry, overwritten from outside the program.       *)
(***************************************************************************)
Undecodable == [garbage |-> "{"]

Corrupt(owner, i, part) ==
    /\ opCount < MaxOps
    /\ i \in 1..Len(redis.long_term_memory[owner])
    /\ JsonDecodable(redis.long_term_memory[owner][i])
    /\ redis' = [redis EXCEPT !.long_term_memory[owner][i] =
                    IF part = "entry" THEN Undecodable
                    ELSE JsonDumps([JsonLoads(@) EXCEPT !.content = Undecodable])]
    /\ opCount' = opCount + 1
    /\ last' = [op |-> "corrupt", owner |-> owner, at |-> i, part |-> part]
    /\ UNCHANGED <<outbox, nextId, clock, saved>>
    /\ UNCHANGED <<fxVars, savers, auxVars>>

NextCorrupt ==
    \/ Next
    \/ \E o \in Owners, part \in {"entry", "content"} :
           \E i \in {1, Len(redis.long_term_memory[o])} : Corrupt(o, i, part)

SpecCorrupt == Init /\ [][NextCorrupt]_vars

(***************************************************************************)
(* The rate engine served by one thread: every request of FXTrader runs    *)
(* calculate_rates on the shared base_rates and builds its reply before    *)
(* the next request starts.  answers is what the two sources would answer  *)
(* for each anchor during the request.                                     *)
(***************************************************************************)
MaxFxOps == 2

AnchorNames == {"usd_xaf", "aed_usd", "usd_xof", "usd_cny", "usd_eur"}

AnchorKey ==
    [usd_xaf |-> "XAF", aed_usd |-> "USD", usd_xof |-> "XOF", usd_cny |-> "CNY",
     usd_eur |-> "EUR"]

YahooRates ==
    [usd_xaf |-> 6035, aed_usd |-> 273, usd_xof |-> 6000, usd_cny |-> 7200,
     usd_eur |-> 900]

FallbackRates ==
    [usd_xaf |-> 5500, aed_usd |-> 270, usd_xof |-> 5555, usd_cny |-> 7100,
     usd_eur |-> 850]

(* What the sources answer for one anchor: the primary gives a rate        *)
(* ("yahoo"); or it gives none and the secondary gives a rate ("fallback"), *)
(* a reply without the key ("no_key"), no reply ("down"), the key with 0    *)
(* ("zero") or the key with null ("null").                                  *)
AnswerKinds == {"yahoo", "fallback", "no_key", "down", "zero", "null"}

Answer(anchor, kind) ==
    [yahoo |-> IF kind = "yahoo" THEN Rate(YahooRates[anchor]) ELSE None,
     fallback |->
         CASE kind = "fallback" ->
                  [ok |-> TRUE, rates |-> (AnchorKey[anchor] :> Rate(FallbackRates[anchor]))]
           [] kind = "zero" -> [ok |-> TRUE, rates |-> (AnchorKey[anchor] :> Rate(0))]
           [] kind = "null" -> [ok |-> TRUE, rates |-> (AnchorKey[anchor] :> None)]
           [] kind = "no_key" -> [ok |-> TRUE, rates |-> ("GBP" :> Rate(790))]
           [] OTHER -> [ok |-> FALSE, rates |-> << >>]]

AllYahoo == [a \in AnchorNames |-> "yahoo"]

(* The runs of the model: every anchor answered by the primary but one,   *)
(* or all answered alike.                                                 *)
Scenarios ==
    {[AllYahoo EXCEPT ![a] = kind] : a \in AnchorNames, kind \in AnswerKinds}
    \cup {[a \in AnchorNames |-> kind] : kind \in AnswerKinds}

AnswersOf(kinds) == [a \in AnchorNames |-> Answer(a, kinds[a])]

FxRequests ==
    {<<"get_daily_rates">>,
     <<"calculate_exchange", "100", "usd">>,
     <<"calculate_exchange", "2.5", "cny">>,
     <<"calculate_exchange", "abc", "usd">>,
     <<"calculate_exchange", "100", "gbp">>,
     <<"get_trading_process_info", "100", "EUR", "xof">>,
     <<"get_trading_process_info", "100", "tether", "XAF">>,
     <<"get_trading_process_info", "100", "usd", "EUR">>,
     <<"health_check">>}

Serve(request, answers, now) ==
    CASE request[1] = "get_daily_rates" -> get_daily_rates(base_rates, answers, now)
      [] request[1] = "calculate_exchange" ->
             calculate_exchange(base_rates, answers, now, request[2], request[3])
      [] request[1] = "get_trading_process_info" ->
             get_trading_process_info(base_rates, answers, now, request[2], request[3],
                                      request[4])
      [] request[1] = "health_check" ->
             [run |-> calculate_rates(base_rates, answers, now),
              reply |-> TextReply("ok")]

Served(r, request, kinds) ==
    /\ base_rates' = r.run.base_rates
    /\ fxCount' = fxCount + 1
    /\ fxLast' = [op |-> request[1], request |-> request, kinds |-> kinds,
                  answers |-> AnswersOf(kinds), ok |-> r.run.ok,
                  fetched |-> r.run.fetched, written |-> r.run.written,
                  reply |-> r.reply, before |-> base_rates]
    /\ UNCHANGED <<memoryVars, fxThreads, savers, auxVars>>

FxRequest(request, kinds) ==
    /\ fxCount < MaxFxOps
    /\ \E r \in {Serve(request, AnswersOf(kinds), fxCount + 1)} :
           Served(r, request, kinds)

NextFx == \E request \in FxRequests, kinds \in Scenarios : FxRequest(request, kinds)

InitFx ==
    /\ redis = EmptyStore
    /\ outbox = << >>
    /\ nextId = 1
    /\ clock = 1
    /\ opCount = 0
    /\ saved = [o \in Owners |-> << >>]
    /\ last = [op |-> "init"]
    /\ base_rates = InitialBaseRates
    /\ fxCount = 0
    /\ fxLast = [op |-> "init"]
    /\ fxThreads = [t \in Threads |-> IdleThread]
    /\ savers = [c \in Callers |-> IdleSaver]
    /\ AuxInit

SpecFx == InitFx /\ [][NextFx]_vars

(***************************************************************************)
(* The rate engine under concurrent requests.  fx_trader is one object of  *)
(* the process and holds no lock: a thread in calculate_rates assigns the  *)
(* keys of base_rates one after the other (lines 246-289) and a thread     *)
(* formatting a reply reads them one after the other; each assignment and  *)
(* each read is a step, and the steps of the threads interleave.           *)
(***************************************************************************)
WriteOrder ==
    <<"XAF_USD", "XAF_USDT", "XAF_AED", "XOF_USD", "XOF_USDT", "XOF_AED", "XAF_CNY",
      "XOF_CNY", "XAF_EUR", "XOF_EUR", "last_updated">>

(* The keys a reply reads, in the order of its text. *)
ReadOrder(request) ==
    CASE request = "get_daily_rates" ->
             <<"last_updated", "XAF_USD", "XOF_USD", "XAF_USDT", "XOF_USDT", "XAF_AED",
               "XOF_AED", "XAF_CNY", "XOF_CNY", "XAF_EUR", "XOF_EUR">>
      [] request = "calculate_exchange" ->
             <<"XAF_USD", "XOF_USD", "XAF_USD", "XOF_USD", "last_updated">>
      [] OTHER -> << >>

ThreadRequests == {"get_daily_rates", "calculate_exchange", "health_check"}

ThreadScenarios ==
    {AllYahoo, [a \in AnchorNames |-> "fallback"], [AllYahoo EXCEPT !["usd_cny"] = "null"]}

(* The timestamp of a thread's run. *)
Stamp(t) == IF t = "webhook" THEN 1 ELSE 2

(* The request of thread t starts: calculate_rates fetches the anchors and *)
(* either returns False or goes on to assign the pairs.                    *)
Started(t, request, run) ==
    /\ fxThreads' = [fxThreads EXCEPT ![t] =
           [pc |-> IF run.ok THEN "writing" ELSE "done", request |-> request,
            ok |-> run.ok, published |-> IF run.ok THEN run.base_rates ELSE << >>,
            next |-> 1, seen |-> << >>]]
    /\ UNCHANGED <<memoryVars, base_rates, fxCount, fxLast, savers, auxVars>>

FxStart(t) ==
    /\ fxThreads[t].pc = "idle"
    /\ \E request \in ThreadRequests, kinds \in ThreadScenarios :
           \E run \in {calculate_rates(base_rates, AnswersOf(kinds), Stamp(t))} :
               Started(t, request, run)

(* One assignment to self.base_rates of lines 246-289. *)
FxWrite(t) ==
    /\ fxThreads[t].pc = "writing"
    /\ LET key == WriteOrder[fxThreads[t].next]
           last_one == fxThreads[t].next = Len(WriteOrder)
           reads == ReadOrder(fxThreads[t].request) # << >>
       IN  /\ base_rates' = [base_rates EXCEPT ![key] = fxThreads[t].published[key]]
           /\ fxThreads' = [fxThreads EXCEPT
                  ![t].next = IF last_one THEN 1 ELSE @ + 1,
                  ![t].pc = IF ~last_one THEN "writing"
                            ELSE IF reads THEN "reading" ELSE "done"]
    /\ UNCHANGED <<memoryVars, fxCount, fxLast, savers, auxVars>>

(* One read of self.base_rates by the reply being formatted. *)
FxRead(t) ==
    /\ fxThreads[t].pc = "reading"
    /\ LET order == ReadOrder(fxThreads[t].request)
           key == order[fxThreads[t].next]
       IN  fxThreads' = [fxThreads EXCEPT
               ![t].seen = Append(@, base_rates[key]),
               ![t].next = @ + 1,
               ![t].pc = IF fxThreads[t].next = Len(order) THEN "done" ELSE "reading"]
    /\ UNCHANGED <<memoryVars, base_rates, fxCount, fxLast, savers, auxVars>>

NextFxThreads == \E t \in Threads : FxStart(t) \/ FxWrite(t) \/ FxRead(t)

InitFxThreads == InitFx

SpecFxThreads == InitFxThreads /\ [][NextFxThreads]_vars

(***************************************************************************)
(* save_long_term_memory called by two requests at the same time.  Each    *)
(* store operation of lines 412-420 is one step: the store executes the    *)
(* operations of the two calls one at a time, in any order that keeps the  *)
(* order of each call.                                                     *)
(***************************************************************************)
SaverTypes == {"reminder", "personal", "mood"}

SaverPhones == {"whatsapp:+1", "+1"}

(* Lines 391-409: the type is checked, the id drawn, the entry prepared. *)
SaveBegin(c, phone_number, memory_type) ==
    /\ savers[c].pc = "idle"
    /\ savers' = [savers EXCEPT ![c] =
           IF memory_type \notin MEMORY_TYPES
           THEN [IdleSaver EXCEPT !.pc = "done", !.phone_number = phone_number,
                                  !.memory_type = memory_type, !.raised = "ValueError"]
           ELSE [pc |-> "ledger_push", phone_number |-> _sanitize_phone(phone_number),
                 memory_type |-> memory_type, memory_id |-> nextId,
                 entry |-> MemoryEntry(nextId, memory_type, "m1", clock),
                 ret |-> 0, raised |-> "none"]]
    /\ nextId' = nextId + 1
    /\ clock' = clock + 1
    /\ UNCHANGED <<redis, outbox, opCount, saved, last, fxVars, auxVars>>

(* Line 412: redis_client.rpush(redis_key, json.dumps(memory_entry)). *)
LedgerPush(c) ==
    /\ savers[c].pc = "ledger_push"
    /\ redis' = [redis EXCEPT !.long_term_memory[savers[c].phone_number] =
                     rpush(@, JsonDumps(savers[c].entry))]
    /\ savers' = [savers EXCEPT ![c].pc = "ledger_trim"]
    /\ UNCHANGED <<outbox, nextId, clock, opCount, saved, last, fxVars, auxVars>>

(* Line 415: redis_client.ltrim(redis_key, -100, -1). *)
LedgerTrim(c) ==
    /\ savers[c].pc = "ledger_trim"
    /\ redis' = [redis EXCEPT !.long_term_memory[savers[c].phone_number] =
                     ltrim(@, 0 - LedgerKeep, -1)]
    /\ savers' = [savers EXCEPT ![c].pc = "index_push"]
    /\ UNCHANGED <<outbox, nextId, clock, opCount, saved, last, fxVars, auxVars>>

(* Line 419: redis_client.rpush(type_key, memory_id). *)
IndexPush(c) ==
    /\ savers[c].pc = "index_push"
    /\ redis' = [redis EXCEPT
                     !.memory_by_type[savers[c].phone_number][savers[c].memory_type] =
                         rpush(@, savers[c].memory_id)]
    /\ savers' = [savers EXCEPT ![c].pc = "index_trim"]
    /\ UNCHANGED <<outbox, nextId, clock, opCount, saved, last, fxVars, auxVars>>

(* Lines 420-423: redis_client.ltrim(type_key, -50, -1); return memory_id. *)
IndexTrim(c) ==
    /\ savers[c].pc = "index_trim"
    /\ redis' = [redis EXCEPT
                     !.memory_by_type[savers[c].phone_number][savers[c].memory_type] =
                         ltrim(@, 0 - IndexKeep, -1)]
    /\ savers' = [savers EXCEPT ![c].pc = "done", ![c].ret = savers[c].memory_id]
    /\ UNCHANGED <<outbox, nextId, clock, opCount, saved, last, fxVars, auxVars>>

NextSavers ==
    \E c \in Callers :
        \/ \E phone_number \in SaverPhones, memory_type \in SaverTypes :
               SaveBegin(c, phone_number, memory_type)
        \/ LedgerPush(c)
        \/ LedgerTrim(c)
        \/ IndexPush(c)
        \/ IndexTrim(c)

(* The store before the two calls: empty, or the ledger at its cap and the *)
(* reminder index at its cap.                                              *)
SaverPrefills == {<< >>, Repeat("personal", 1) \o Repeat("reminder", LedgerKeep - 1)}

InitSavers ==
    \E types \in SaverPrefills :
        /\ redis = SaveAll(EmptyStore, "whatsapp:+1", types, 1, Len(types))
        /\ outbox = << >>
        /\ nextId = Len(types) + 1
        /\ clock = Len(types) + 1
        /\ opCount = 0
        /\ saved = [o \in Owners |-> << >>]
        /\ last = [op |-> "init"]
        /\ base_rates = InitialBaseRates
        /\ fxCount = 0
        /\ fxLast = [op |-> "init"]
        /\ fxThreads = [t \in Threads |-> IdleThread]
        /\ savers = [c \in Callers |-> IdleSaver]
        /\ AuxInit

SpecSavers == InitSavers /\ [][NextSavers]_vars

(***************************************************************************)
(* update_memory running while other requests call save_long_term_memory   *)
(* for the same owner.  The lrange of line 553 and the lset of line 563 are *)
(* two store operations; the store executes the operations of the Saves     *)
(* between them in any order.                                               *)
(***************************************************************************)
UpdaterIds == {1, 2, LedgerKeep}

(* Lines 550-560: the ledger is read whole and scanned for the id; the      *)
(* updated copy of the record is prepared.                                  *)
UpdateRead(phone_number, memory_id, updated_content) ==
    /\ updater.pc = "idle"
    /\ LET owner == _sanitize_phone(phone_number)
           memories == lrange(redis.long_term_memory[owner], 0, -1)
           hit == FindMemory(memories, memory_id)
       IN  updater' = [IdleUpdater EXCEPT
                          !.pc = IF hit.found THEN "lset" ELSE "done",
                          !.phone_number = owner,
                          !.memory_id = memory_id,
                          !.content = updated_content,
                          !.memories = memories,
                          !.at = hit.at,
                          !.now = clock]
    /\ clock' = clock + 1
    /\ UNCHANGED <<redis, outbox, nextId, opCount, saved, last, fxVars, savers, boot, web>>

(* Lines 563-565: redis_client.lset(redis_key, i, json.dumps(memory)) with  *)
(* the position and the record of the scan; return True.                    *)
UpdateWrite ==
    /\ updater.pc = "lset"
    /\ LET memory  == JsonLoads(updater.memories[updater.at + 1])
           updated == [memory EXCEPT !.content = JsonDumps(updater.content),
                                     !.updated_at = updater.now]
       IN  redis' = [redis EXCEPT !.long_term_memory[updater.phone_number] =
                        lset(@, updater.at, JsonDumps(updated))]
    /\ updater' = [updater EXCEPT
                      !.pc = "done", !.ret = TRUE,
                      !.before = redis.long_term_memory[updater.phone_number]]
    /\ UNCHANGED <<outbox, nextId, clock, opCount, saved, last, fxVars, savers, boot, web>>

NextUpdater ==
    \/ NextSavers
    \/ \E memory_id \in UpdaterIds, c \in Contents :
           UpdateRead("whatsapp:+1", memory_id, c)
    \/ UpdateWrite

InitUpdater == InitSavers

SpecUpdater == InitUpdater /\ [][NextUpdater]_vars

(***************************************************************************)
(* The process-wide store handle redis_client, from the load of app.py on. *)
(* boot.render is the RENDER variable of the environment, boot.reachable   *)
(* whether the store answers a ping.  Every call of create_fallback_redis  *)
(* executes its class statement again: the FallbackRedis it instantiates   *)
(* is a new class, numbered boot.classes.                                  *)
(***************************************************************************)
MaxStoreOps == 3

(* Line 91: max_retries = 15 if os.getenv('RENDER') else 5. *)
max_retries(render) == IF render THEN 15 ELSE 5

(* Line 130: ping_retries = 5 if os.getenv('RENDER') else 3. *)
ping_retries(render) == IF render THEN 5 ELSE 3

(* create_fallback_redis(): an instance of a FallbackRedis class defined   *)
(* by this call.                                                           *)
create_fallback_redis(classes) == [kind |-> "fallback", class |-> classes + 1]

RealClient == [kind |-> "real", class |-> 0]

(* isinstance(handle, type(create_fallback_redis())): the handle is an     *)
(* instance of the class the call in the argument has just defined.        *)
IsFallbackInstance(handle, classes) ==
    /\ handle.kind = "fallback"
    /\ handle.class = create_fallback_redis(classes).class

(* initialize_redis() called by a thread, to its return: the client when   *)
(* the store answers, a fallback client after the last attempt failed.     *)
(* classes counts the FallbackRedis classes defined before the call.       *)
initialize_redis(b, classes) ==
    IF b.reachable
    THEN [b EXCEPT !.handle = RealClient, !.classes = classes]
    ELSE [b EXCEPT !.handle = create_fallback_redis(classes), !.classes = classes + 1]

(* Lines 220-229 and 266-276: the test of the handle, and the upgrade when *)
(* the test says the handle is a fallback.                                 *)
UpgradeIfFallback(b) ==
    IF b.render /\ IsFallbackInstance(b.handle, b.classes)
    THEN initialize_redis(b, b.classes + 1)
    ELSE [b EXCEPT !.classes = b.classes + 1]

(* Lines 195-206 and 293-301 on Render: the handle starts as a fallback    *)
(* client and the two threads are started.                                 *)
LoadOnRender ==
    /\ boot.load.pc = "start"
    /\ boot.render
    /\ boot' = [boot EXCEPT !.handle = create_fallback_redis(boot.classes),
                            !.classes = boot.classes + 1,
                            !.load.pc = "done",
                            !.init = "waiting", !.upgrader = "waiting"]
    /\ UNCHANGED <<memoryVars, fxVars, savers, updater, web>>

(* Lines 101-153 off Render, one ping of initialize_redis at a time: the   *)
(* client on an answer, the next ping or the next attempt on a failure,    *)
(* the fallback client after the last ping of the last attempt.            *)
LoadPing ==
    /\ boot.load.pc \in {"start", "connect"}
    /\ ~boot.render
    /\ boot' =
         IF boot.reachable
         THEN [boot EXCEPT !.handle = RealClient, !.load.pc = "done"]
         ELSE IF boot.load.ping < ping_retries(boot.render) - 1
         THEN [boot EXCEPT !.load.pc = "connect", !.load.ping = @ + 1]
         ELSE IF boot.load.attempt < max_retries(boot.render) - 1
         THEN [boot EXCEPT !.load.pc = "connect", !.load.ping = 0,
                           !.load.attempt = @ + 1]
         ELSE [boot EXCEPT !.handle = create_fallback_redis(boot.classes),
                           !.classes = boot.classes + 1,
                           !.load.pc = "done"]
    /\ UNCHANGED <<memoryVars, fxVars, savers, updater, web>>

(* The store starts to answer. *)
StoreUp ==
    /\ ~boot.reachable
    /\ boot' = [boot EXCEPT !.reachable = TRUE]
    /\ UNCHANGED <<memoryVars, fxVars, savers, updater, web>>

(* delayed_initialization: after its sleep, initialize_background_services *)
(* (lines 212-229).                                                        *)
InitializeBackgroundServices ==
    /\ boot.init = "waiting"
    /\ boot' = [UpgradeIfFallback(boot) EXCEPT !.init = "done"]
    /\ UNCHANGED <<memoryVars, fxVars, savers, updater, web>>

(* redis_upgrader (lines 253-281): after the sleep of an attempt, the test *)
(* of the handle; both branches of the test leave the loop.                *)
RedisUpgrader ==
    /\ boot.upgrader = "waiting"
    /\ boot' = [UpgradeIfFallback(boot) EXCEPT !.upgrader = "done"]
    /\ UNCHANGED <<memoryVars, fxVars, savers, updater, web>>

(* A request writing to the store through the handle: kept by the store,   *)
(* refused by a store that does not answer, dropped by a fallback client   *)
(* (lines 163-164).                                                        *)
StoreSet ==
    /\ boot.load.pc = "done"
    /\ boot.stored + boot.dropped + boot.refused < MaxStoreOps
    /\ boot' = IF boot.handle.kind = "fallback"
               THEN [boot EXCEPT !.dropped = @ + 1]
               ELSE IF boot.reachable
               THEN [boot EXCEPT !.stored = @ + 1]
               ELSE [boot EXCEPT !.refused = @ + 1]
    /\ UNCHANGED <<memoryVars, fxVars, savers, updater, web>>

NextBoot ==
    \/ LoadOnRender
    \/ LoadPing
    \/ StoreUp
    \/ InitializeBackgroundServices
    \/ RedisUpgrader
    \/ StoreSet

InitBoot ==
    /\ redis = EmptyStore
    /\ outbox = << >>
    /\ nextId = 1
    /\ clock = 1
    /\ opCount = 0
    /\ saved = [o \in Owners |-> << >>]
    /\ last = [op |-> "init"]
    /\ base_rates = InitialBaseRates
    /\ fxCount = 0
    /\ fxLast = [op |-> "init"]
    /\ fxThreads = [t \in Threads |-> IdleThread]
    /\ savers = [c \in Callers |-> IdleSaver]
    /\ updater = IdleUpdater
    /\ web = IdleWeb
    /\ \E render \in BOOLEAN, reachable \in BOOLEAN : boot = Unloaded(render, reachable)

SpecBoot == InitBoot /\ [][NextBoot]_vars

(* The threads of the process are scheduled: a thread that can take its    *)
(* step takes it.  The store is not obliged to ever answer.                *)
SpecBootFair ==
    /\ SpecBoot
    /\ WF_vars(LoadOnRender)
    /\ WF_vars(LoadPing)
    /\ WF_vars(InitializeBackgroundServices)
    /\ WF_vars(RedisUpgrader)

(***************************************************************************)
(* The webhook serving one request at a time.  env is what the store, the  *)
(* rate sources, the completion service and the gateway do during the      *)
(* request.                                                                *)
(***************************************************************************)
AllDown == [a \in AnchorNames |-> "down"]

Calm ==
    [get |-> "ok", set |-> "ok", kinds |-> AllYahoo,
     ai |-> [failures |-> 0, content |-> " On it. ", tool |-> << >>],
     fail |-> NoFailure, memory_fail |-> 0]

SendTool ==
    <<"execute_action", "send_message", [recipient |-> "+1555", message |-> "hi"]>>

ToolCalls ==
    {SendTool,
     <<"execute_action", "send_message", [message |-> "hi"]>>,
     <<"execute_action", "{">>,
     <<"lookup", "rates", << >>>>}

ActionFailures ==
    {[NoFailure EXCEPT !.gateway = TRUE],
     [NoFailure EXCEPT !.memory = 1],
     [NoFailure EXCEPT !.set_pending = TRUE, !.set_handler = TRUE]}

(* Everything failing at once. *)
Storm ==
    [get |-> "ok", set |-> "error", kinds |-> AllDown,
     ai |-> [failures |-> OpenAiMaxRetries, content |-> "None", tool |-> SendTool],
     fail |-> [NoFailure EXCEPT !.gateway = TRUE], memory_fail |-> 1]

Environments ==
    {Calm, Storm, [Storm EXCEPT !.get = "error"], [Storm EXCEPT !.set = "ok"],
     [Calm EXCEPT !.get = "error"], [Calm EXCEPT !.set = "error"],
     [Calm EXCEPT !.kinds = AllDown], [Calm EXCEPT !.memory_fail = 1]}
    \cup {[Calm EXCEPT !.ai.failures = n] : n \in 1..(OpenAiMaxRetries + 1)}
    \cup {[Calm EXCEPT !.ai.content = c] : c \in {"None", "", "   "}}
    \cup {[Calm EXCEPT !.ai.tool = t] : t \in ToolCalls}
    \cup {[Calm EXCEPT !.ai.tool = SendTool, !.ai.content = c] : c \in {"None", "   "}}
    \cup {[Calm EXCEPT !.fail = f] : f \in ActionFailures}
    \cup {[Calm EXCEPT !.ai.tool = SendTool, !.fail = f] : f \in ActionFailures}

ConversationOf(from_number) ==
    IF from_number \in WebPhones THEN web.conversation[from_number] ELSE None

(* Lines 1550-1576 after the request r: the set of the history unless the  *)
(* request ended before; a redis error of the set reaches line 1568 and    *)
(* the reply is the apology.                                               *)
Delivered(r, from_number, message, env) ==
    LET writes == r.route \in {"fx", "direct", "ai"} /\ ~r.raised
    IN  /\ redis' = r.store
        /\ outbox' = r.outbox
        /\ base_rates' = r.base_rates
        /\ nextId' = nextId + 4
        /\ clock' = clock + 1
        /\ web' = [web EXCEPT
               !.conversation =
                   IF writes /\ env.set = "ok"
                   THEN [@ EXCEPT ![from_number] = StoredHistory(@, r.history)]
                   ELSE @,
               !.count = @ + 1,
               !.last = [op |-> "webhook", from |-> from_number, message |-> message,
                         env |-> env, route |-> r.route,
                         before |-> ConversationOf(from_number),
                         read |-> ReadHistory(ConversationOf(from_number)),
                         bot_reply |-> r.reply,
                         reply |-> IF writes /\ env.set = "error" THEN ApologyReply
                                   ELSE r.reply,
                         raised |-> (r.raised \/ (writes /\ env.set = "error")),
                         stored |-> (writes /\ env.set = "ok"),
                         action_result |-> r.action_result,
                         attempts |-> r.attempts, sleeps |-> r.sleeps,
                         executed |-> r.executed,
                         sent |-> Len(r.outbox) - Len(outbox)]]
        /\ UNCHANGED <<opCount, saved, last, fxCount, fxLast, fxThreads, savers, updater,
                       boot>>

Webhook(from_number, message, env) ==
    /\ web.count < MaxWebhookOps
    /\ \E r \in {webhook(redis, outbox, base_rates, AnswersOf(env.kinds),
                         ConversationOf(from_number), from_number, message, env, nextId,
                         clock)} :
           Delivered(r, from_number, message, env)

(* A request without From ends at line 1432 whatever else it holds. *)
NextWebhook ==
    \/ \E from_number \in WebPhones, message \in Messages, env \in Environments :
           Webhook(from_number, message, env)
    \/ Webhook("", PlainMessage("Tell me a joke", 14), Calm)

(* The turns of a conversation held before the first request of a run. *)
OldTurns(n) ==
    [i \in 1..n |-> [role |-> IF i % 2 = 1 THEN "user" ELSE "assistant",
                     content |-> <<"turn", ToString(i)>>]]

StoredConversations ==
    {None, Undecodable, JsonDumps(OldTurns(HistoryKeep - 1)), JsonDumps(OldTurns(HistoryKeep))}

InitWebhook ==
    /\ redis = EmptyStore
    /\ outbox = << >>
    /\ nextId = 1
    /\ clock = 1
    /\ opCount = 0
    /\ saved = [o \in Owners |-> << >>]
    /\ last = [op |-> "init"]
    /\ base_rates = InitialBaseRates
    /\ fxCount = 0
    /\ fxLast = [op |-> "init"]
    /\ fxThreads = [t \in Threads |-> IdleThread]
    /\ savers = [c \in Callers |-> IdleSaver]
    /\ updater = IdleUpdater
    /\ boot = Loaded
    /\ \E stored \in StoredConversations :
           web = [IdleWeb EXCEPT !.conversation = [p \in WebPhones |-> stored]]

SpecWebhook == InitWebhook /\ [][NextWebhook]_vars

(***************************************************************************)
(* Two requests of one sender handled at the same time.  The get of line   *)
(* 1453 and the set of line 1551 are two store operations of a request;    *)
(* the store executes the operations of the two requests in any order.     *)
(* The messages are ones whose handling touches no other key.              *)
(***************************************************************************)
HookMessages ==
    {PlainMessage("Tell me a joke", 14),
     [PlainMessage("subscribe", 9) EXCEPT !.subscribe = TRUE],
     [PlainMessage("hello", 5) EXCEPT !.greeting = TRUE]}

(* Lines 1426-1548 of a request: the get of the history, the reply and the *)
(* history to store, held by the request until its set.                    *)
Handled(r, t, from_number, message) ==
    /\ redis' = r.store
    /\ outbox' = r.outbox
    /\ base_rates' = r.base_rates
    /\ nextId' = nextId + 4
    /\ clock' = clock + 1
    /\ web' = [web EXCEPT !.hooks[t] =
                   [pc |-> "set", from |-> from_number, message |-> message.text,
                    read |-> ReadHistory(web.conversation[from_number]),
                    history |-> r.history, reply |-> r.reply]]
    /\ UNCHANGED <<opCount, saved, last, fxCount, fxLast, fxThreads, savers, updater,
                   boot>>

HookRead(t, from_number, message) ==
    /\ web.hooks[t].pc = "idle"
    /\ \E r \in {webhook(redis, outbox, base_rates, AnswersOf(Calm.kinds),
                         web.conversation[from_number], from_number, message, Calm,
                         nextId, clock)} :
           Handled(r, t, from_number, message)

(* Lines 1550-1566: the set of the history and the reply. *)
HookWrite(t) ==
    /\ web.hooks[t].pc = "set"
    /\ web' = [web EXCEPT
           !.conversation[web.hooks[t].from] = StoredHistory(@, web.hooks[t].history),
           !.hooks[t].pc = "done"]
    /\ UNCHANGED <<memoryVars, fxVars, savers, updater, boot>>

NextHooks ==
    \E t \in HookThreads :
        \/ \E from_number \in WebPhones, message \in HookMessages :
               HookRead(t, from_number, message)
        \/ HookWrite(t)

InitHooks == InitWebhook

SpecHooks == InitHooks /\ [][NextHooks]_vars

(***************************************************************************)
(* Observations the properties are stated with.                            *)
(***************************************************************************)
Ledger(owner) == redis.long_term_memory[owner]

Index(owner, memory_type) == redis.memory_by_type[owner][memory_type]

(* The id and type of every entry of the ledger, in ledger order. *)
LedgerKeys(owner) ==
    [i \in 1..Len(Ledger(owner)) |->
        [id |-> JsonLoads(Ledger(owner)[i]).id, type |-> JsonLoads(Ledger(owner)[i]).type]]

LastOf(seq, n) ==
    IF Len(seq) <= n THEN seq ELSE SubSeq(seq, Len(seq) - n + 1, Len(seq))

SavedUnder(owner, memory_type) ==
    LET of_type == SelectSeq(saved[owner], LAMBDA s : s.type = memory_type)
    IN  [i \in 1..Len(of_type) |-> of_type[i].id]

(***************************************************************************)
(* C1.  Save, then Retrieve of the same owner and category with limit 1    *)
(* and nothing in between: Retrieve returns exactly one record, it has the *)
(* id Save returned, and its content is the payload that was saved.        *)
(***************************************************************************)
SaveThenRetrieveOne ==
    /\ last.op = "retrieve"
    /\ last.limit = 1
    /\ last.after.op = "save"
    /\ last.after.raised = "none"
    /\ _sanitize_phone(last.after.phone_number) = _sanitize_phone(last.phone_number)
    /\ last.after.memory_type = last.memory_type

(* C1: the Retrieve that follows a Save returns the saved record alone. *)
C1_SaveRetrieveRoundTrip ==
    SaveThenRetrieveOne =>
        /\ last.raised = "none"
        /\ Len(last.ret) = 1
        /\ last.ret[1].id = last.after.ret
        /\ last.ret[1].content = last.after.content

C1_Witness ==
    /\ SaveThenRetrieveOne
    /\ Len(Ledger(_sanitize_phone(last.phone_number))) = LedgerKeep
    /\ Len(last.ret) = 1

(***************************************************************************)
(* C2.  Retention is first-in first-out and capped: an owner's ledger is   *)
(* the last min(k, 100) records saved for the owner, in save order, and    *)
(* each category index is the last min(k_c, 50) ids saved under that       *)
(* category, in save order.                                                *)
(***************************************************************************)
C2_FifoRetention ==
    \A o \in Owners :
        /\ LedgerKeys(o) = LastOf(saved[o], LedgerKeep)
        /\ Len(Ledger(o)) <= LedgerKeep
        /\ Len(saved[o]) > LedgerKeep => Len(Ledger(o)) = LedgerKeep
        /\ \A t \in MemoryTypeArgs :
               /\ Index(o, t) = LastOf(SavedUnder(o, t), IndexKeep)
               /\ Len(Index(o, t)) <= IndexKeep

C2_Witness ==
    \E o \in Owners :
        /\ last.op \in {"save", "execute"}
        /\ Len(saved[o]) > LedgerKeep
        /\ Len(Ledger(o)) = LedgerKeep
        /\ \E t \in MEMORY_TYPES :
               /\ Len(SavedUnder(o, t)) > IndexKeep
               /\ Len(Index(o, t)) = IndexKeep

(***************************************************************************)
(* C3.  Every id held in a category index of an owner is the id of a       *)
(* record that is in the owner's ledger.                                   *)
(***************************************************************************)
C3_IndexIdsAreInLedger ==
    \A o \in Owners, t \in MemoryTypeArgs :
        \A k \in 1..Len(Index(o, t)) : InIds(Index(o, t)[k], LedgerIds(redis, o))

C3_Witness ==
    \E o \in Owners, t \in MEMORY_TYPES :
        /\ last.op = "save"
        /\ last.raised = "none"
        /\ Len(Ledger(o)) = LedgerKeep
        /\ Index(o, t) # << >>
        /\ ~InIds(Index(o, t)[1], LedgerIds(redis, o))

(***************************************************************************)
(* C4.  Update with an id that is not in the owner's ledger returns False, *)
(* does not raise, and writes nothing.                                     *)
(***************************************************************************)
C4_UpdateOfMissingIdWritesNothing ==
    (last.op = "update" /\ ~last.present) =>
        /\ last.raised = "none"
        /\ last.ret = FALSE
        /\ ~last.wrote

C4_Witness ==
    /\ last.op = "update"
    /\ ~last.present
    /\ last.ret = FALSE
    /\ Ledger(_sanitize_phone(last.phone_number)) # << >>

HoldsUndecodable(owner) ==
    \E i \in 1..Len(Ledger(owner)) :
        \/ ~JsonDecodable(Ledger(owner)[i])
        \/ ~JsonDecodable(JsonLoads(Ledger(owner)[i]).content)

(* C6: Retrieve on a ledger holding an undecodable text does not raise. *)
C6_RetrieveSkipsUndecodable ==
    (last.op = "retrieve" /\ HoldsUndecodable(_sanitize_phone(last.phone_number))) =>
        last.raised = "none"

C6_Witness ==
    /\ last.op = "retrieve"
    /\ HoldsUndecodable(_sanitize_phone(last.phone_number))
    /\ last.raised = "MemoryError"
    /\ \E i \in 1..Len(Ledger(_sanitize_phone(last.phone_number))) :
           JsonDecodable(Ledger(_sanitize_phone(last.phone_number))[i])

(***************************************************************************)
(* C7.  The tracking record of an invocation of execute_action.            *)
(* As claimed: it is written with status pending first, then exactly once  *)
(* with a terminal status, whatever fails.                                 *)
(* As amended: the statuses written are never more than pending followed   *)
(* by one terminal status, a terminal status is never overwritten, an      *)
(* invocation that returns has written a terminal status, and when the     *)
(* store accepts every write of the record (failures of MemoryStore calls  *)
(* and of the gateway included) the invocation returns and the statuses    *)
(* are exactly pending then completed, or pending then failed, the last    *)
(* one being the stored one.                                               *)
(***************************************************************************)
StoredStatus(action_id) ==
    IF action_id \in DOMAIN redis.action
    THEN JsonLoads(redis.action[action_id]).status
    ELSE "absent"

(* C7 as claimed: the writes are pending, then one terminal status. *)
C7_PendingThenOneTerminal ==
    last.op = "execute" =>
        last.writes \in {<<"pending", "completed">>, <<"pending", "failed">>}

(* C7 as amended: pending then one terminal status whenever the store    *)
(* accepts the writes of the record; never more than that otherwise.     *)
C7_TrackingWrites ==
    last.op = "execute" =>
        /\ last.writes \in {<< >>, <<"pending">>, <<"failed">>,
                            <<"pending", "completed">>, <<"pending", "failed">>}
        /\ last.raised = "none" =>
               /\ last.writes # << >>
               /\ last.writes[Len(last.writes)] \in {"completed", "failed"}
        /\ last.writes # << >> =>
               StoredStatus(last.action_id) = last.writes[Len(last.writes)]
        /\ ~last.set_raised =>
               /\ last.raised = "none"
               /\ last.writes \in {<<"pending", "completed">>, <<"pending", "failed">>}

C7_Witness ==
    /\ last.op = "execute"
    /\ ~last.set_raised
    /\ last.valid = "valid"
    /\ last.calls # << >>
    /\ last.writes = <<"pending", "failed">>
    /\ StoredStatus(last.action_id) = "failed"

(***************************************************************************)
(* C8.  execute_action never raises: whatever fails, the store's writes of *)
(* the tracking record included, the call returns a result.                *)
(***************************************************************************)
C8_ExecuteNeverRaises ==
    last.op = "execute" => last.raised = "none"

C8_Witness ==
    /\ last.op = "execute"
    /\ last.raised = "RedisOperationError"
    /\ last.calls # << >>
    /\ StoredStatus(last.action_id) = "pending"

(***************************************************************************)
(* C9.  Every value execute_action returns has a boolean success, with a   *)
(* message when it is true and an error when it is false.                  *)
(***************************************************************************)
C9_UniformResult ==
    (last.op = "execute" /\ last.raised = "none") =>
        /\ "success" \in DOMAIN last.ret
        /\ last.ret["success"] \in BOOLEAN
        /\ IF last.ret["success"] THEN "message" \in DOMAIN last.ret
                                  ELSE "error" \in DOMAIN last.ret

C9_Witness ==
    /\ last.op = "execute"
    /\ last.raised = "none"
    /\ last.valid = "invalid"
    /\ DOMAIN last.ret = {"valid", "error"}

(***************************************************************************)
(* C10.  A request that validation rejects (unknown action, a required     *)
(* parameter missing, a date or a time that does not parse) has no         *)
(* dispatch side effect: no Save, no Update, no gateway call; its tracking *)
(* record ends failed and is never completed; for a missing parameter the  *)
(* error names exactly the required parameters that params lacks.          *)
(***************************************************************************)
MissingParams(action_name, params) ==
    {p \in {ActionHandler_ACTIONS[action_name].required_params[k] :
                k \in 1..Len(ActionHandler_ACTIONS[action_name].required_params)} :
        p \notin DOMAIN params}

Rejected(action_name, params) ==
    \/ action_name \notin DOMAIN ActionHandler_ACTIONS
    \/ MissingParams(action_name, params) # {}
    \/ "date" \in DOMAIN params /\ params["date"] \notin {"2025-01-05", "2025-1-5"}
    \/ "time" \in DOMAIN params /\ params["time"] \notin {"14:30", "9:05"}

(* C10: a rejected request dispatches nothing and its record ends failed. *)
C10_RejectedRequestHasNoEffect ==
    (last.op = "execute" /\ Rejected(last.action_name, last.params)) =>
        /\ last.calls = << >>
        /\ last.sent = 0
        /\ ~last.wrote
        /\ last.raised = "none"
        /\ ~last.ret.valid
        /\ last.writes = <<"pending", "failed">>
        /\ StoredStatus(last.action_id) = "failed"
        /\ (/\ last.action_name \in DOMAIN ActionHandler_ACTIONS
            /\ MissingParams(last.action_name, last.params) # {}) =>
               /\ last.ret.error[1] = "Missing required parameters: "
               /\ {last.ret.error[k] : k \in 2..Len(last.ret.error)}
                      = MissingParams(last.action_name, last.params)
               /\ Len(last.ret.error) =
                      1 + Cardinality(MissingParams(last.action_name, last.params))

C10_Witness ==
    /\ last.op = "execute"
    /\ last.action_name = "create_reminder"
    /\ last.params = [date |-> "2025-02-30"]
    /\ last.ret.error = <<"Missing required parameters: ", "message">>
    /\ last.writes = <<"pending", "failed">>
    /\ Ledger("+1") # << >>

(***************************************************************************)
(* C11.  execute_action with create_reminder, a message and a date that    *)
(* parses, and neither time nor priority: the call returns success, the    *)
(* tracking record ends completed, the reminder is stored with time 09:00  *)
(* and priority normal, and a Retrieve of the owner's reminders that       *)
(* follows returns it.                                                     *)
(***************************************************************************)
PlainReminder(op) ==
    /\ op.op = "execute"
    /\ op.action_name = "create_reminder"
    /\ {"message", "date"} \subseteq DOMAIN op.params
    /\ op.params["date"] \in {"2025-01-05", "2025-1-5"}
    /\ "time" \notin DOMAIN op.params
    /\ "priority" \notin DOMAIN op.params

DefaultedReminder(memory, memory_id) ==
    /\ memory.id = memory_id
    /\ memory.type = "reminder"
    /\ memory.content.time = "09:00"
    /\ memory.content.priority = "normal"

(* C11: a reminder created without time and priority is stored with the  *)
(* defaults, completed, and returned by the Retrieve that follows.        *)
C11_ReminderDefaultsRetrievable ==
    /\ PlainReminder(last) =>
           /\ last.raised = "none"
           /\ last.ret.success = TRUE
           /\ last.writes = <<"pending", "completed">>
           /\ StoredStatus(last.action_id) = "completed"
           /\ \E i \in 1..Len(Ledger(_sanitize_phone(last.phone_number))) :
                  DefaultedReminder(
                      Parsed(JsonLoads(Ledger(_sanitize_phone(last.phone_number))[i])),
                      last.memory_id)
    /\ (/\ last.op = "retrieve"
        /\ last.memory_type = "reminder"
        /\ last.limit = 10
        /\ PlainReminder(last.after)
        /\ _sanitize_phone(last.after.phone_number) = _sanitize_phone(last.phone_number)) =>
           /\ last.raised = "none"
           /\ \E k \in 1..Len(last.ret) :
                  DefaultedReminder(last.ret[k], last.after.memory_id)

C11_Witness ==
    /\ last.op = "retrieve"
    /\ last.memory_type = "reminder"
    /\ last.limit = 10
    /\ PlainReminder(last.after)
    /\ Len(last.ret) = 10
    /\ DefaultedReminder(last.ret[10], last.after.memory_id)

(***************************************************************************)
(* C12.  execute_action with send_message and valid parameters, the        *)
(* gateway raising its error and nothing else failing: the call returns    *)
(* success false with the gateway's message text in the error, the         *)
(* tracking record ends failed, and no record is saved: the ledger and the *)
(* indexes are as before, and nothing is sent.                             *)
(***************************************************************************)
GatewayFailure == [NoFailure EXCEPT !.gateway = TRUE]

SendRefusedByGateway ==
    /\ last.op = "execute"
    /\ last.action_name = "send_message"
    /\ {"recipient", "message"} \subseteq DOMAIN last.params
    /\ "date" \notin DOMAIN last.params
    /\ "time" \notin DOMAIN last.params
    /\ last.fail = GatewayFailure

IsPreferenceOf(text, name, category) ==
    /\ JsonDecodable(text)
    /\ JsonLoads(text).type = "preference"
    /\ {"name", "category"} \subseteq DOMAIN JsonLoads(JsonLoads(text).content)
    /\ JsonLoads(JsonLoads(text).content).name = name
    /\ JsonLoads(JsonLoads(text).content).category = category

PreferenceRecords(owner, name, category) ==
    {i \in 1..Len(Ledger(owner)) : IsPreferenceOf(Ledger(owner)[i], name, category)}

(* C13: no (name, category) pair has two preference records in a ledger. *)
C13_OnePreferencePerPair ==
    \A o \in Owners, category \in {"general", "fx"} :
        \A name \in {"language", "currency"} :
            Cardinality(PreferenceRecords(o, name, category)) <= 1

C13_Witness ==
    /\ last.op = "execute"
    /\ last.action_name = "update_preference"
    /\ last.raised = "none"
    /\ last.valid = "valid"
    /\ last.ret.success = TRUE
    /\ last.calls = <<"retrieve_long_term_memories", "save_long_term_memory">>
    /\ Cardinality(PreferenceRecords("+1", "language", "general")) = 2

(***************************************************************************)
(* Observations of the rate engine.                                        *)
(***************************************************************************)
AnchorOrder == <<"usd_xaf", "aed_usd", "usd_xof", "usd_cny", "usd_eur">>

AnchorSymbol == <<"USDXAF=X", "AEDUSD=X", "USDXOF=X", "USDCNY=X", "USDEUR=X">>

AnchorStatic == <<StaticUsdXaf, StaticAedUsd, StaticUsdXof, StaticUsdCny, StaticUsdEur>>

FxServed == fxLast.op # "init"

(* The primary source yielded a rate for the k-th anchor of the last run. *)
PrimaryYielded(k) == Truthy(fxLast.answers[AnchorOrder[k]].yahoo)

(* The secondary source yielded a rate for the k-th anchor. *)
SecondaryYielded(k) ==
    LET fallback == fxLast.answers[AnchorOrder[k]].fallback
        key == AnchorKey[AnchorOrder[k]]
    IN  /\ fallback.ok
        /\ key \in DOMAIN fallback.rates
        /\ Truthy(fallback.rates[key])

(* The value of the first source, in the order primary, secondary, static  *)
(* constant, that yielded a rate for the k-th anchor.                      *)
FirstYielded(k) ==
    IF PrimaryYielded(k) THEN fxLast.answers[AnchorOrder[k]].yahoo
    ELSE IF SecondaryYielded(k)
    THEN fxLast.answers[AnchorOrder[k]].fallback.rates[AnchorKey[AnchorOrder[k]]]
    ELSE Rate(AnchorStatic[k])

(* C14: for every anchor fetched in a run the primary source is queried    *)
(* first, the secondary source is queried only if the primary yielded no   *)
(* rate, the static constant of the pair is the value only if both yielded *)
(* none, and the value used is that of the first source, in this order,    *)
(* that yielded a rate.                                                    *)
C14_AnchorFallbackOrder ==
    FxServed =>
        \A k \in 1..Len(fxLast.fetched) :
            LET got == fxLast.fetched[k]
            IN  /\ got.queries[1] = <<"yahoo", AnchorSymbol[k]>>
                /\ Len(got.queries) <= 2
                /\ Len(got.queries) = 2 =>
                       /\ ~PrimaryYielded(k)
                       /\ got.queries[2][1] = "fallback"
                /\ (got.source = "static" /\ got.rate = Rate(AnchorStatic[k])) =>
                       (~PrimaryYielded(k) /\ ~SecondaryYielded(k))
                /\ Truthy(got.rate) => got.rate = FirstYielded(k)

(* A run that completed with an anchor taken from the secondary source     *)
(* after the primary yielded none.                                         *)
C14_Witness ==
    /\ FxServed
    /\ fxLast.ok
    /\ \E k \in 1..Len(fxLast.fetched) :
           /\ ~PrimaryYielded(k)
           /\ SecondaryYielded(k)
           /\ Len(fxLast.fetched[k].queries) = 2
           /\ fxLast.fetched[k].rate = FirstYielded(k)

(* The anchors of the last run, as fetched: USD/XAF and USD/XOF in tenths, *)
(* AED/USD, USD/CNY and USD/EUR in thousandths.                            *)
Anchor(k) == fxLast.fetched[k].rate.value

(* p hundredths is n / d hundredths rounded to the nearest hundredth. *)
RoundedTo2(p, n, d) == 2 * (p * d - n) <= d /\ 2 * (n - p * d) <= d

(* p is the larger of n / d rounded to the nearest hundredth and 604.50. *)
RoundedAndFloored(p, n, d) ==
    /\ p >= FloorRate
    /\ p > FloorRate => RoundedTo2(p, n, d)
    /\ p = FloorRate => 2 * n <= (2 * FloorRate + 1) * d

RateReplyServed ==
    /\ FxServed
    /\ fxLast.op \in {"get_daily_rates", "calculate_exchange", "get_trading_process_info"}

UnableTexts ==
    {"Unable to fetch current exchange rates. Please try again later.",
     "Unable to fetch current rates. Please try again."}

(* A getter of the last run returned no usable value: None or 0. *)
AnchorNotObtained == \E k \in 1..Len(fxLast.fetched) : ~Truthy(fxLast.fetched[k].rate)

PairAnchors ==
    [XAF_USD |-> {1}, XAF_USDT |-> {1}, XAF_AED |-> {1, 2},
     XOF_USD |-> {3}, XOF_USDT |-> {3}, XOF_AED |-> {2, 3},
     XAF_CNY |-> {1, 4}, XOF_CNY |-> {3, 4}, XAF_EUR |-> {1, 5}, XOF_EUR |-> {3, 5}]

(* The k-th getter gives a usable value on the answers of the last run. *)
AnchorAvailable(k) == Truthy(AnchorGetter(k, fxLast.answers).rate)

(* calculate_rates ran in the last request. *)
RatesRan == FxServed /\ fxLast.fetched # << >>

(* C17: anchor failures are independent: in a calculate_rates run every    *)
(* pair whose anchors are all available is computed and published, also    *)
(* when another anchor is unavailable, and a daily reply shows it.         *)
C17_IndependentAnchorFailures ==
    RatesRan =>
        \A pair \in Pairs :
            (\A k \in PairAnchors[pair] : AnchorAvailable(k)) =>
                /\ pair \in fxLast.written
                /\ fxLast.op = "get_daily_rates" => pair \in DOMAIN fxLast.reply.shown

(* A daily-rates request in which USD/CNY is unavailable and USD/XAF is    *)
(* available, and the run published nothing.                               *)
C17_Witness ==
    /\ RatesRan
    /\ fxLast.op = "get_daily_rates"
    /\ ~AnchorAvailable(4)
    /\ AnchorAvailable(1)
    /\ fxLast.written = {}
    /\ fxLast.reply.text \in UnableTexts

(* C18: in one calculate_rates run each anchor is fetched exactly once, in *)
(* the order of the code, and the published XAF_CNY is                     *)
(* round((1 / usd_cny) * usd_xaf * 1.095, 2) recomputed from the usd_xaf   *)
(* that gave XAF_USD and the usd_cny that gave XOF_CNY in that run.        *)
C18_OneFetchPerAnchor ==
    RatesRan =>
        /\ Len(fxLast.fetched) <= 5
        /\ \A k \in 1..Len(fxLast.fetched) :
               /\ fxLast.fetched[k].queries[1] = <<"yahoo", AnchorSymbol[k]>>
               /\ \A j \in 1..Len(fxLast.fetched) :
                      fxLast.fetched[j].queries[1] = fxLast.fetched[k].queries[1] => j = k
        /\ fxLast.ok =>
               /\ Len(fxLast.fetched) = 5
               /\ \E usd_xaf \in {Anchor(1)}, usd_cny \in {Anchor(4)} :
                      /\ RoundedAndFloored(base_rates["XAF_USD"],
                                           usd_xaf * (1000 + usd_markup_percentage), 100)
                      /\ RoundedTo2(base_rates["XOF_CNY"],
                                    Anchor(3) * (1000 + xof_cny_markup_percentage) * 10,
                                    usd_cny)
                      /\ RoundedTo2(base_rates["XAF_CNY"],
                                    usd_xaf * (1000 + xaf_cny_markup_percentage) * 10,
                                    usd_cny)

(* A CNY conversion after a run whose USD/XAF came from the secondary      *)
(* source and whose USD/CNY came from the primary.                         *)
C18_Witness ==
    /\ RatesRan
    /\ fxLast.ok
    /\ fxLast.op = "calculate_exchange"
    /\ Len(fxLast.fetched[1].queries) = 2
    /\ Len(fxLast.fetched[4].queries) = 1
    /\ Anchor(1) # StaticUsdXaf
    /\ "XAF_CNY" \in DOMAIN fxLast.reply.shown
    /\ fxLast.reply.shown["XAF_CNY"] = base_rates["XAF_CNY"]

(* The reply of thread t is complete and shows rates. *)
RepliedWithRates(t) ==
    /\ fxThreads[t].pc = "done"
    /\ fxThreads[t].ok
    /\ fxThreads[t].seen # << >>

(* C19: the rates shown in one reply all come from the calculate_rates run *)
(* of the same request, whatever other requests run at the same time on    *)
(* the shared fx_trader.                                                   *)
C19_ReplyFromOneRun ==
    \A t \in Threads :
        RepliedWithRates(t) =>
            \A i \in 1..Len(fxThreads[t].seen) :
                fxThreads[t].seen[i]
                    = fxThreads[t].published[ReadOrder(fxThreads[t].request)[i]]

(* A complete reply that shows one value written by its own run and one    *)
(* written by the run of the other thread.                                 *)
C19_Witness ==
    \E t \in Threads, u \in Threads :
        /\ t # u
        /\ RepliedWithRates(t)
        /\ fxThreads[u].ok
        /\ \E i, j \in 1..Len(fxThreads[t].seen) :
               LET keys == ReadOrder(fxThreads[t].request)
               IN  /\ fxThreads[t].seen[i] = fxThreads[t].published[keys[i]]
                   /\ fxThreads[t].seen[j] # fxThreads[t].published[keys[j]]
                   /\ fxThreads[t].seen[j] = fxThreads[u].published[keys[j]]

(* Both calls are complete, were for the same owner and had valid types. *)
BothSaved ==
    /\ \A c \in Callers : savers[c].pc = "done" /\ savers[c].memory_type \in MEMORY_TYPES
    /\ savers["first"].phone_number = savers["second"].phone_number

(* The record and the id of the call of c are in the store. *)
Retrievable(c) ==
    /\ \E i \in 1..Len(redis.long_term_memory[savers[c].phone_number]) :
           LET text == redis.long_term_memory[savers[c].phone_number][i]
           IN  /\ JsonDecodable(text)
               /\ JsonLoads(text).id = savers[c].memory_id
               /\ JsonLoads(text).type = savers[c].memory_type
               /\ JsonLoads(text).created_at = savers[c].entry.created_at
    /\ \E i \in 1..Len(redis.memory_by_type[savers[c].phone_number][savers[c].memory_type]) :
           redis.memory_by_type[savers[c].phone_number][savers[c].memory_type][i]
               = savers[c].memory_id

(* C20: for every interleaving of the store operations of two concurrent   *)
(* save_long_term_memory calls for the same owner with valid categories,   *)
(* both return an id, the ids differ, and after both are complete both     *)
(* records are in the ledger and both ids in their category indexes.       *)
C20_ConcurrentSavesBothKept ==
    BothSaved =>
        /\ \A c \in Callers :
               /\ savers[c].raised = "none"
               /\ savers[c].ret # 0
               /\ savers[c].ret = savers[c].memory_id
               /\ Retrievable(c)
        /\ savers["first"].ret # savers["second"].ret

(* Two complete calls of the same category on a ledger and an index that   *)
(* were at their caps, so that all four trims dropped entries.             *)
C20_Witness ==
    /\ BothSaved
    /\ savers["first"].memory_type = "reminder"
    /\ savers["second"].memory_type = "reminder"
    /\ Len(redis.long_term_memory[savers["first"].phone_number]) = LedgerKeep
    /\ Len(redis.memory_by_type[savers["first"].phone_number]["reminder"]) = IndexKeep
    /\ \A c \in Callers : Retrievable(c)

(* The step is an update_memory call with an id present in the ledger. *)
UpdateOfPresentId ==
    /\ opCount' = opCount + 1
    /\ last'.op = "update"
    /\ last'.present

(* The ledger entry at position i before and after the step is the record  *)
(* with the given id, changed in content and updated_at only.              *)
OnlyPayloadChanged(before, after, memory_id, content, now) ==
    /\ JsonDecodable(after)
    /\ JsonLoads(after).id = memory_id
    /\ JsonLoads(after).type = JsonLoads(before).type
    /\ JsonLoads(after).created_at = JsonLoads(before).created_at
    /\ JsonLoads(after).content = JsonDumps(content)
    /\ JsonLoads(after).updated_at = now

(* C26: update_memory with an id present in the ledger returns True and    *)
(* changes only that record's content and updated_at: the record keeps its *)
(* id, type, created_at and position, every other record and the length of *)
(* the ledger are unchanged, and no category index is modified.            *)
C26_UpdateChangesOnlyPayload ==
    [][UpdateOfPresentId =>
          LET owner == _sanitize_phone(last'.phone_number)
              before == redis.long_term_memory[owner]
              after == redis'.long_term_memory[owner]
          IN  /\ last'.ret = TRUE
              /\ last'.raised = "none"
              /\ Len(after) = Len(before)
              /\ \A i \in 1..Len(before) :
                     IF JsonLoads(before[i]).id = last'.memory_id
                     THEN OnlyPayloadChanged(before[i], after[i], last'.memory_id,
                                             last'.content, clock)
                     ELSE after[i] = before[i]
              /\ \A o \in Owners \ {owner} :
                     redis'.long_term_memory[o] = redis.long_term_memory[o]
              /\ redis'.memory_by_type = redis.memory_by_type
              /\ redis'.action = redis.action]_vars

(* An update of the newest record of a ledger that holds older records. *)
C26_Witness ==
    /\ last.op = "update"
    /\ last.present
    /\ last.ret = TRUE
    /\ Len(Ledger(_sanitize_phone(last.phone_number))) >= 3
    /\ LET ledger == Ledger(_sanitize_phone(last.phone_number))
       IN  /\ JsonLoads(ledger[Len(ledger)]).id = last.memory_id
           /\ JsonLoads(ledger[Len(ledger)]).content = JsonDumps(last.content)

(* The last call was a retrieve without category on a non-empty ledger. *)
RetrievedUncategorised ==
    /\ last.op = "retrieve"
    /\ last.memory_type = "None"
    /\ last.raised = "none"
    /\ Ledger(_sanitize_phone(last.phone_number)) # << >>

(* C29: retrieve_long_term_memories without category and time filter, with *)
(* limit >= 1, on a non-empty ledger returns min(limit, ledger length)      *)
(* records, the newest ones of the ledger; the most recently saved record   *)
(* is among them.                                                           *)
C29_RetrieveReturnsNewest ==
    RetrievedUncategorised =>
        LET ledger == Ledger(_sanitize_phone(last.phone_number))
            n == Len(ledger)
            m == IF last.limit <= n THEN last.limit ELSE n
        IN  /\ Len(last.ret) = m
            /\ \A k \in 1..Len(last.ret) :
                   \E i \in (n - m + 1)..n : last.ret[k].id = JsonLoads(ledger[i]).id
            /\ \E k \in 1..Len(last.ret) : last.ret[k].id = JsonLoads(ledger[n]).id

(* A retrieve with limit 1 on a ledger of several records that returned a  *)
(* record other than the newest.                                           *)
C29_Witness ==
    /\ RetrievedUncategorised
    /\ last.limit = 1
    /\ Len(Ledger(_sanitize_phone(last.phone_number))) >= 2
    /\ Len(last.ret) = 1
    /\ LET ledger == Ledger(_sanitize_phone(last.phone_number))
       IN  /\ last.ret[1].id # JsonLoads(ledger[Len(ledger)]).id
           /\ last.ret[1].id = JsonLoads(ledger[Len(ledger) - 1]).id

(* The last call was a send_message that returned success = false or left  *)
(* its tracking record failed.                                             *)
SendMessageFailed ==
    /\ last.op = "execute"
    /\ last.action_name = "send_message"
    /\ last.valid = "valid"
    /\ \/ last.raised = "none" /\ last.ret.success = FALSE
       \/ StoredStatus(last.action_id) = "failed"

(* C30: a send_message that returns success = false, or whose tracking     *)
(* record ends failed, handed no message to the gateway in that call.      *)
C30_FailedSendHasNoEffect ==
    SendMessageFailed => last.sent = 0

(* The gateway accepted the message, the Save of the sent-message record   *)
(* failed, and the call returned success = false with the record failed.   *)
C30_Witness ==
    /\ SendMessageFailed
    /\ last.raised = "none"
    /\ last.ret.success = FALSE
    /\ StoredStatus(last.action_id) = "failed"
    /\ last.calls = <<"messages.create", "save_long_term_memory">>
    /\ last.fail.memory > 0
    /\ ~last.wrote
    /\ last.sent = 1
    /\ Len(outbox) = 1

(* C28: the lset of update_memory replaces no record whose id differs from *)
(* the id it was called with, whatever the Saves of the same owner did     *)
(* between its read of the ledger and its lset.                            *)
C28_UpdateTouchesOnlyItsId ==
    [][(updater.pc = "lset" /\ updater'.pc = "done") =>
          LET before == Ledger(updater.phone_number)
              after  == redis'.long_term_memory[updater.phone_number]
          IN  /\ Len(after) = Len(before)
              /\ \A i \in 1..Len(before) :
                     JsonLoads(before[i]).id # updater.memory_id =>
                         after[i] = before[i]]_vars

(* An update of the oldest record whose lset, after a Save pushed and      *)
(* trimmed the full ledger, replaced the record with the next id.          *)
C28_Witness ==
    /\ updater.pc = "done"
    /\ updater.ret = TRUE
    /\ updater.memory_id = 1
    /\ Len(updater.before) = LedgerKeep
    /\ JsonLoads(updater.before[1]).id = 2
    /\ JsonLoads(Ledger(updater.phone_number)[1]).id = 1
    /\ \A i \in 1..Len(Ledger(updater.phone_number)) :
           JsonLoads(Ledger(updater.phone_number)[i]).id # 2

(* C27: on Render, once the store answers while the delayed initializer or *)
(* the upgrader has still to run, the handle becomes the real client; and  *)
(* a handle that is the real client is never replaced by a fallback.       *)
C27_HandleUpgraded ==
    /\ (/\ boot.render
        /\ boot.reachable
        /\ (boot.init = "waiting" \/ boot.upgrader = "waiting"))
           ~> (boot.handle.kind = "real")
    /\ [][boot.handle.kind = "real" => boot'.handle.kind = "real"]_vars

(* Render, the store answering since before the process was loaded, both   *)
(* threads finished, and the handle still a fallback that drops writes.    *)
C27_Witness ==
    /\ boot.render
    /\ boot.reachable
    /\ boot.init = "done"
    /\ boot.upgrader = "done"
    /\ boot.handle.kind = "fallback"
    /\ boot.handle.class = 1
    /\ boot.classes = 3
    /\ boot.dropped = MaxStoreOps

(***************************************************************************)
(* The webhook.                                                            *)
(***************************************************************************)
(* The last request came from a sender and was handled to its end. *)
WebhookServed == web.last.op = "webhook" /\ web.last.from \in WebPhones

(* The history the store holds for the sender of the last request. *)
Persisted == ReadHistory(web.conversation[web.last.from])

(* What the last request read, then its user turn, then its assistant turn. *)
Extended ==
    web.last.read \o <<[role |-> "user", content |-> <<web.last.message.text>>],
                       [role |-> "assistant", content |-> web.last.reply]>>

(* The last 20 turns of Extended, the new turns its last two entries. *)
PersistedIsTail ==
    LET n == Len(Extended)
        kept == IF n < HistoryKeep THEN n ELSE HistoryKeep
    IN  /\ JsonDecodable(web.conversation[web.last.from])
        /\ Len(Persisted) = kept
        /\ Len(Persisted) <= HistoryKeep
        /\ \A i \in 1..kept : Persisted[i] = Extended[n - kept + i]
        /\ Persisted[kept - 1].role = "user"
        /\ Persisted[kept - 1].content = <<web.last.message.text>>
        /\ Persisted[kept].role = "assistant"
        /\ Persisted[kept].content = web.last.reply

(* The request got the reply of its route: it was not refused at lines     *)
(* 1432-1447 and no exception reached line 1568.                           *)
AnsweredNormally ==
    /\ web.last.route \in {"fx", "direct", "ai"}
    /\ ~web.last.raised

WebhookDispatched ==
    /\ WebhookServed
    /\ web.last.route \in {"fx", "direct", "ai"}

(* The message of the last request matches a pattern of parse_direct_command. *)
IsDirectCommand ==
    web.last.message.send # << >> \/ web.last.message.reminder # << >>

(* C23: a message that matches a direct command pattern is dispatched to   *)
(* execute_action whatever FX keywords it holds, the FX check answers only *)
(* messages that match no direct command, and a message answered by the    *)
(* rate engine makes no call of the completion service.                    *)
C23_DirectCommandsFirst ==
    WebhookDispatched =>
        /\ IsDirectCommand => (web.last.route = "direct" /\ web.last.executed)
        /\ web.last.route = "fx" => (~IsDirectCommand /\ web.last.attempts = 0)

(* 'Send a message to +1555 saying hello' answered with the welcome text   *)
(* of the FX check: nothing executed, nothing handed to the gateway.       *)
C23_Witness ==
    /\ WebhookDispatched
    /\ web.last.message.send = <<"+1555", "hello">>
    /\ web.last.route = "fx"
    /\ web.last.reply = <<"Welcome to FX Trading!">>
    /\ ~web.last.executed
    /\ web.last.attempts = 0
    /\ web.last.sent = 0
    /\ outbox = << >>

(* The last request was handed to generate_ai_response_with_action_parsing. *)
AiInvoked == WebhookServed /\ web.last.route = "ai"

(* C24: the completion call is made at most 3 times in a request, with a   *)
(* wait of 2 s after the first failure and 4 s after the second; when the  *)
(* 3 calls fail the function returns the connectivity reply with no action *)
(* result, runs no action and raises nothing.                              *)
C24_BoundedRetries ==
    AiInvoked =>
        /\ web.last.attempts >= 1
        /\ web.last.attempts <= 3
        /\ web.last.attempts =
               IF web.last.env.ai.failures < 3 THEN web.last.env.ai.failures + 1 ELSE 3
        /\ web.last.sleeps = SubSeq(<<2, 4>>, 1, web.last.attempts - 1)
        /\ web.last.env.ai.failures >= 3 =>
               /\ web.last.bot_reply = ConnectivityReply
               /\ web.last.action_result = << >>
               /\ ~web.last.executed
               /\ web.last.sent = 0
               /\ web.last.raised => web.last.env.set = "error"

(* The service failing more often than it is called: 3 calls, waits of 2 s *)
(* and 4 s, the connectivity reply delivered and stored.                   *)
C24_Witness ==
    /\ AiInvoked
    /\ web.last.env.ai.failures > OpenAiMaxRetries
    /\ web.last.attempts = OpenAiMaxRetries
    /\ web.last.sleeps = <<2, 4>>
    /\ web.last.reply = ConnectivityReply
    /\ web.last.stored

(* A reply with some text in it. *)
HasText(reply) == \E i \in 1..Len(reply) : reply[i] # ""

(* C25: every request ends with a reply that carries some text, whatever   *)
(* the store, the rate sources, the completion service, the gateway and    *)
(* the action did.                                                         *)
C25_AlwaysReplies ==
    web.last.op = "webhook" => HasText(web.last.reply)

(* The completion service answering with blanks and no tool call: the     *)
(* reply delivered and stored as the assistant turn is the empty text.    *)
C25_Witness ==
    /\ AiInvoked
    /\ web.last.env.ai.content = "   "
    /\ web.last.env.ai.tool = << >>
    /\ web.last.attempts = 1
    /\ ~web.last.raised
    /\ web.last.reply = <<"">>
    /\ web.last.stored
    /\ Persisted[Len(Persisted)] = [role |-> "assistant", content |-> <<"">>]

(* The turns a request adds: its user turn and its assistant turn. *)
TurnsOf(hook) ==
    <<[role |-> "user", content |-> <<hook.message>>],
      [role |-> "assistant", content |-> hook.reply]>>

(* turns occur next to each other in history. *)
HoldsTurns(history, turns) ==
    \E i \in 0..(Len(history) - Len(turns)) :
        \A k \in 1..Len(turns) : history[i + k] = turns[k]

(* C21: the set of a request replaces the stored history by the history    *)
(* the request read, extended by its own two turns and cut to the last 20, *)
(* whatever another request stored in between: two requests of one sender  *)
(* handled at the same time can leave the turns of only one of them.       *)
C21_WritesBackWhatItRead ==
    [][\A t \in HookThreads :
          (web.hooks[t].pc = "set" /\ web'.hooks[t].pc = "done") =>
              LET extended == web.hooks[t].read \o TurnsOf(web.hooks[t])
                  n == Len(extended)
                  kept == IF n < HistoryKeep THEN n ELSE HistoryKeep
                  stored == ReadHistory(web'.conversation[web.hooks[t].from])
              IN  /\ Len(stored) = kept
                  /\ \A i \in 1..kept : stored[i] = extended[n - kept + i]]_vars

(* Both requests read the same 19 turns and both have stored: the history  *)
(* holds the turns of the second and not the turns of the first.           *)
C21_Witness ==
    /\ web.hooks["first"].pc = "done"
    /\ web.hooks["second"].pc = "done"
    /\ web.hooks["first"].from = web.hooks["second"].from
    /\ web.hooks["first"].message # web.hooks["second"].message
    /\ Len(web.hooks["first"].read) = HistoryKeep - 1
    /\ web.hooks["first"].read = web.hooks["second"].read
    /\ LET stored == ReadHistory(web.conversation[web.hooks["first"].from])
       IN  /\ HoldsTurns(stored, TurnsOf(web.hooks["second"]))
           /\ ~HoldsTurns(stored, TurnsOf(web.hooks["first"]))
           /\ \A i \in 1..Len(stored) :
                  stored[i].content # <<web.hooks["first"].message>>

====
